---- MODULE Spec2Model ----
(***************************************************************************)
(* State machines of the cogs of TB/cogs: bump reminder (bremind.py),      *)
(* presence rotation (presence.py), AFK (afk.py), keyword triggers         *)
(* (triggers.py), sticky message (stickymessage.py), tickets (tickets.py). *)
(*                                                                         *)
(* The cogs run on one asyncio event loop: a handler runs without          *)
(* interruption from one await to the next.  The bump-reminder tick has    *)
(* two awaits per guild (channel.edit in _maybe_rename, chan.send), and    *)
(* other handlers may run while it is suspended there.                     *)
(***************************************************************************)
EXTENDS Integers, Sequences, FiniteSets, TLC

(***************************** bounds **************************************)
MaxSaveFails == 1      \* failed writes of bremind.json per behaviour
MaxRestarts == 1       \* process restarts per behaviour
MaxSendFails == 1      \* failed chan.send calls per behaviour
MaxRaises == 1         \* external calls raising what the tick does not catch
MaxRot == 3            \* rotation items rotadd accepts
MaxVisit == 5          \* ticks whose list positions are remembered
MaxPeriods == 3        \* AFK periods per behaviour
MaxInFlight == 2       \* coroutines of one cog suspended at the same time
MaxPosts == 3          \* messages the sticky cog posts per behaviour
MaxTickets == 2        \* ticket channels created per behaviour
MaxTranscripts == 1    \* transcripts sent per behaviour

Guilds == {1, 2}       \* bot.guilds
GuildOrder == <<1, 2>> \* list(self.bot.guilds)
ClockValues == {0, 7200, 14400}   \* values of int(time.time())
ChannelIds == {101}    \* text channels a command may name
Configured == {1}      \* guilds whose admins run /bremind set-channel
Users == {1, 2}        \* members who write messages and run /afk, /back
AfkClock == {1000, 1029, 1030}    \* values of time.time() in the AFK cog
TextChannels == {11, 12}          \* channels users write in
TriggerKeys == {"1", "testing"}   \* the normalised keys of TRIGGERS
TrigClock == {1000, 1002, 1003}   \* values of time.time() in the triggers cog
CreatedAt == {100, 106, 107}      \* message.created_at of the users' messages
StickyTexts == {"rules"}          \* texts given to /set_sticky
Roles == {7, 8}                   \* the roles of the guild

(***************************** constants ***********************************)
DEFAULT_COOLDOWN == 7200
DISBOARD_BOT_ID == "302050872383242240"
None == -1             \* Optional[int] = None
DEFAULT_BUMP_REPLY == "Thanks {user} for bumping! Next bump in {minutes} minutes."
DEFAULT_EMBED_COLOR == "5793266"   \* DEFAULT_EMBED["color"], 0x5865F2, as JSON text
NoTemplate == ""       \* bump_reply_template None or empty: no reply
MIN_INTERVAL == 10     \* the floor of max(10, ...)
DEFAULT_INTERVAL == 60 \* interval_seconds or 60; raw.get("interval", 60)
MENTION_COOLDOWN_S == 30
COOLDOWN_SECONDS == 3

VARIABLES
    clock,           \* time.time()
    _states,         \* Bremind._states: guild -> GuildState, or NoState
    store,           \* contents of data/bremind.json
    tick,            \* the _tick coroutine: pc, now, guilds left, locals
    chan_name,       \* name of each guild's channel (the rename target)
    budget,          \* faults the environment may still inject: save, restart, send
    recorded,        \* history: last_bump_ts values recorded per guild
    succ,            \* history: tick reminders delivered since the guild's last bump
    fails,           \* history: failed tick sends since the guild's last bump
    dueDone,         \* history: a due tick finished the guild since its last bump
    dueSent,         \* history: reminders delivered by due ticks since its last bump
    atRestart,       \* history: what the guild's record was at the last restart
    ev               \* history: the last handler step and its input

VARIABLES
    _rotation,       \* Presence._rotation: the list of rotation items
    _rot_index,      \* Presence._rot_index: the cursor
    _rot_interval,   \* Presence._rot_interval
    _autostart,      \* Presence._autostart
    _was_rotating_last_time,
    _activity_tup,   \* Presence._activity_tup: the activity shown, or NoItem
    loop,            \* the _rotator_loop task: stopped, running, cancelling
    rot_file,        \* contents of data/presence_rotation.json
    p_budget,        \* faults the environment may still inject: save, restart
    written,         \* history: the file was last written by _save_state
    visit,           \* history: list positions the last ticks applied
    pev,             \* history: the last step was a tick (tick_norm: one that
                     \* found the cursor past the end of the list), a rotstart
                     \* or rotstop that went through, or "-"
    session          \* history of the process: "new" until its first on_ready,
                     \* then "ready"; "halted" once a command has cancelled the
                     \* running loop, until the next rotstart ("off": not recorded)

VARIABLES
    afk,             \* AFK.afk: user -> entry, or NoEntry
    nick,            \* member.nick of each user
    afk_tasks,       \* the AFK coroutines suspended in an edit of the nickname
    periods,         \* history: AFK periods begun so far
    announced,       \* history: "no longer AFK" announcements sent per period
    afk_clock,       \* time.time() as the AFK cog reads it
    _recent_notices, \* AFK._recent_notices: key -> time of the notice
    notice_ts,       \* history: (author, target) -> time of the last notice
    aev              \* history: the last step ran _handle_mentions, and on what

avars == <<afk, nick, afk_tasks, periods, announced,
           afk_clock, _recent_notices, notice_ts, aev>>

VARIABLES
    triggers,        \* the Triggers cog: _cooldowns ((channel, key) -> time);
                     \* clock: time.time() as the cog reads it; histories:
                     \* reply_ts, (channel, trigger) -> time of the last reply,
                     \* and ev, the last message handled and the trigger it
                     \* replied to ("-": no reply)
    sticky,          \* the StickyMessage cog: sticky_message (id of a message,
                     \* or None), last_message_time (or None); tasks: its
                     \* suspended coroutines; target_channel: the bot's messages
                     \* that exist in the target channel; posted: messages the
                     \* bot has posted there so far (the last id); history
                     \* custom: the text of the last set_sticky that has posted
                     \* its message, "-" from the next call on
    tickets          \* the Tickets cog and one guild: store and file (the
                     \* guild's record in Tickets.store and in
                     \* data/tickets.json, if it has one); category_exists;
                     \* created: ticket channels created so far; ticket: the
                     \* ticket channel followed (its number, or None), with
                     \* opener_send (the opener's send_messages overwrite),
                     \* panel (the view of its controls message) and
                     \* transcripts (sent so far); tasks: the suspended button
                     \* handlers; histories: last_press (the last Close or Open
                     \* press by staff, or "none") and ev (the last button
                     \* press, who made it, the answer)

cvars == <<triggers, sticky, tickets>>

pvars == <<_rotation, _rot_index, _rot_interval, _autostart, _was_rotating_last_time,
           _activity_tup, loop, rot_file, p_budget, written, visit, pev, session>>

bvars == <<clock, _states, store, tick, chan_name, budget,
           recorded, succ, fails, dueDone, dueSent, atRestart, ev>>

NoState == [absent |-> TRUE]

Max(a, b) == IF a >= b THEN a ELSE b

(***************************** data model **********************************)
\* GuildState() with its defaults
GuildState ==
    [enabled |-> TRUE,
     bump_channel_id |-> None,
     cooldown_s |-> DEFAULT_COOLDOWN,
     last_bump_ts |-> None,
     reminder_sent_for_ts |-> None,
     rename_channel_id |-> None,
     bump_reply_template |-> DEFAULT_BUMP_REPLY,
     embed_color |-> DEFAULT_EMBED_COLOR]

Get(d, k, default) == IF k \in DOMAIN d THEN d[k] ELSE default

from_dict_drop_sent(d) ==
    [enabled |-> Get(d, "enabled", TRUE),
     bump_channel_id |-> Get(d, "bump_channel_id", None),
     cooldown_s |-> Get(d, "cooldown_s", DEFAULT_COOLDOWN),
     last_bump_ts |-> Get(d, "last_bump_ts", None),
     reminder_sent_for_ts |-> None,
     rename_channel_id |-> Get(d, "rename_channel_id", None),
     bump_reply_template |-> Get(d, "bump_reply_template", DEFAULT_BUMP_REPLY),
     embed_color |-> Get(d, "embed_color", DEFAULT_EMBED_COLOR)]

\* GuildState.from_dict: every field is d.get(key, default); nothing is clamped
from_dict(d) ==
    [enabled |-> Get(d, "enabled", TRUE),
     bump_channel_id |-> Get(d, "bump_channel_id", None),
     cooldown_s |-> Get(d, "cooldown_s", DEFAULT_COOLDOWN),
     last_bump_ts |-> Get(d, "last_bump_ts", None),
     reminder_sent_for_ts |-> Get(d, "reminder_sent_for_ts", None),
     rename_channel_id |-> Get(d, "rename_channel_id", None),
     bump_reply_template |-> Get(d, "bump_reply_template", DEFAULT_BUMP_REPLY),
     embed_color |-> Get(d, "embed_color", DEFAULT_EMBED_COLOR)]

\* GuildState.to_dict
to_dict(st) ==
    [enabled |-> st.enabled,
     bump_channel_id |-> st.bump_channel_id,
     cooldown_s |-> st.cooldown_s,
     last_bump_ts |-> st.last_bump_ts,
     reminder_sent_for_ts |-> st.reminder_sent_for_ts,
     rename_channel_id |-> st.rename_channel_id,
     bump_reply_template |-> st.bump_reply_template,
     embed_color |-> st.embed_color]

\* data/bremind.json: parsable or not, and its map guild -> payload
\* (NoState: no key for the guild)
NoRecords == [g \in Guilds |-> NoState]
EmptyFile == [ok |-> TRUE, top |-> "object", guilds |-> NoRecords]
Corrupt == [ok |-> FALSE, top |-> "object", guilds |-> NoRecords]
\* a file that parses to a JSON array
ArrayFile == [ok |-> TRUE, top |-> "array", guilds |-> NoRecords]
\* a guild's payload that is not a JSON object
NotADict == [not_a_dict |-> TRUE]

\* _load_all: the parsed file, {} when json.loads raises
_load_all(file) == IF file.ok THEN file.guilds ELSE NoRecords

\* from_dict raises (d.get on a payload that is not a dict)
Raises(d) == "not_a_dict" \in DOMAIN d

\* Bremind.__init__, line 237: self._data.items() raises AttributeError, outside
\* any try, when the file parsed to something that is not a dict
ConstructionFails(file) == file.ok /\ file.top # "object"

\* Bremind.__init__: one GuildState per key of the file; a payload on which
\* from_dict raises is skipped
LoadStates(file) ==
    [g \in Guilds |->
        IF ConstructionFails(file) \/ _load_all(file)[g] = NoState
           \/ Raises(_load_all(file)[g])
        THEN NoState
        ELSE from_dict(_load_all(file)[g])]

\* _persist_all's payload
Dump(S) ==
    [ok |-> TRUE, top |-> "object",
     guilds |-> [g \in Guilds |-> IF S[g] = NoState THEN NoState ELSE to_dict(S[g])]]

\* _save_all: write_text replaces the file; an exception is swallowed, and the
\* file is then as it was (open failed) or truncated (the write failed)
SaveOutcomes == {"ok", "fail", "trunc"}

_save_all_skip(file, data, o) == file

_save_all_partial(file, data, o) ==
    IF o = "ok" THEN [data EXCEPT !.guilds[1] = file.guilds[1]] ELSE file

\* _save_all, lines 52-56, with the outcome o of write_text
_save_all(file, data, o) ==
    CASE o = "ok" -> data
      [] o = "fail" -> file
      [] OTHER -> Corrupt

NFail(o) == IF o = "ok" THEN 0 ELSE 1

\* _state(guild_id) on the map S: (map, created)
WithState(S, g) == IF S[g] = NoState THEN [S EXCEPT ![g] = GuildState] ELSE S

Has(g) == _states[g] # NoState

(***************************** the tick ************************************)
OtherName == [k |-> "other", m |-> 0]
\* the cog after __init__: the tick is started, unless __init__ raised and
\* there is no cog
Constructed(file) ==
    [pc |-> IF ConstructionFails(file) THEN "failed" ELSE "idle", now |-> 0, todo |-> <<>>,
     ready |-> FALSE, left |-> 0, nolast |-> FALSE, desired |-> OtherName,
     edited |-> FALSE]

IdleTick == [pc |-> "idle", now |-> 0, todo |-> <<>>, ready |-> FALSE,
             left |-> 0, nolast |-> FALSE, desired |-> OtherName, edited |-> FALSE]

\* the event loop runs another handler only while the tick is not running:
\* between two iterations of the loop, or suspended in channel.edit / chan.send
Yielded == tick.pc \in {"idle", "rename", "send"}

NoMsg == [guild |-> None, author |-> "-", content |-> FALSE, embed |-> FALSE]
NoEv == [op |-> "-", msg |-> NoMsg, reply |-> FALSE]

CeilDiv_floor(a, b) == a \div b

\* line 299: -(-seconds_left // 60), with Python's floor division
CeilDiv(a, b) == 0 - ((0 - a) \div b)

Desired_ready(ready, seconds_left) == [k |-> "bump-ready", m |-> 0]

\* _maybe_rename's desired name: ready_name, or cooldown_name with
\* {minutes} = max(1, ceil(seconds_left / 60))
Desired(ready, seconds_left) ==
    IF ready THEN [k |-> "bump-ready", m |-> 0]
    ELSE [k |-> "bump-wait", m |-> Max(1, CeilDiv(seconds_left, 60))]

\* lines 370-372: left = max(0, cooldown_s - (now - last_bump_ts))
Left(st, now) == Max(0, st.cooldown_s - (now - st.last_bump_ts))

\* guild.system_channel: guild 2 has one, guild 1 has none
system_channel == [g \in Guilds |-> g = 2]

HasChan_always(g, st) == TRUE

\* lines 377-381: the configured channel, else the system channel
HasChan(g, st) == st.bump_channel_id # None \/ system_channel[g]

Ghosts == <<recorded, succ, fails, dueDone, dueSent, atRestart>>

\* line 360: now = int(time.time()); for guild in list(self.bot.guilds)
TickStart ==
    /\ tick.pc = "idle"
    /\ tick' = [IdleTick EXCEPT !.pc = "loop", !.now = clock, !.todo = GuildOrder]
    /\ UNCHANGED <<pvars, avars, cvars>>
    /\ ev' = NoEv
    /\ UNCHANGED <<clock, _states, store, chan_name, budget, Ghosts>>

NextGuild == [IdleTick EXCEPT !.pc = "loop", !.now = tick.now, !.todo = Tail(tick.todo)]

NeedsEdit_always(name, desired) == TRUE

\* line 303: if channel.name != desired
NeedsEdit(name, desired) == name # desired

\* lines 362-374 up to the await inside _maybe_rename; edited: channel.edit
\* is called for this guild
TickGuild ==
    /\ tick.pc = "loop" /\ tick.todo # <<>>
    /\ LET g == Head(tick.todo)
           st == _states[g]
       IN  IF st = NoState \/ ~st.enabled
           THEN tick' = NextGuild
           ELSE LET nolast == st.last_bump_ts = None
                    left == IF nolast THEN st.cooldown_s ELSE Left(st, tick.now)
                    ready == ~nolast /\ left = 0
                    want == Desired(ready, left)
                    edit == st.rename_channel_id # None /\ NeedsEdit(chan_name[g], want)
                IN  tick' = [tick EXCEPT !.pc = IF edit THEN "rename" ELSE "afterRename",
                                         !.ready = ready, !.left = left,
                                         !.nolast = nolast, !.desired = want,
                                         !.edited = edit]
    /\ UNCHANGED <<pvars, avars, cvars>>
    /\ ev' = NoEv
    /\ UNCHANGED <<clock, _states, store, chan_name, budget, Ghosts>>

\* line 304: channel.edit returns, or raises Forbidden / HTTPException (swallowed)
RenameDone ==
    /\ tick.pc = "rename"
    /\ \E ok \in BOOLEAN :
          chan_name' = IF ok THEN [chan_name EXCEPT ![Head(tick.todo)] = tick.desired]
                       ELSE chan_name
    /\ tick' = [tick EXCEPT !.pc = "afterRename"]
    /\ UNCHANGED <<pvars, avars, cvars>>
    /\ ev' = NoEv
    /\ UNCHANGED <<clock, _states, store, budget, Ghosts>>

\* JSON values of embed["color"] that int() accepts
Numerals == {DEFAULT_EMBED_COLOR, "255"}

\* _build_embed, line 275: int(st.embed.get("color") or DEFAULT_EMBED["color"])
\* raises ValueError on any other text
BuildRaises(st) ==
    (IF st.embed_color = "" THEN DEFAULT_EMBED_COLOR ELSE st.embed_color) \notin Numerals

\* the tick's now is at least cooldown_s after the guild's current last_bump_ts
DueNow(g) ==
    /\ Has(g) /\ _states[g].last_bump_ts # None
    /\ tick.now - _states[g].last_bump_ts >= _states[g].cooldown_s

\* lines 366-368 (continue) and 376-391, up to the await of chan.send; the
\* try of line 384 catches Forbidden and HTTPException only, so a ValueError of
\* _build_embed leaves _tick, and the loop of tasks.loop ends with it
TickAfterRename ==
    /\ tick.pc = "afterRename"
    /\ LET g == Head(tick.todo)
           st == _states[g]
       IN  IF tick.nolast
           THEN tick' = NextGuild /\ UNCHANGED dueDone
           ELSE IF tick.ready /\ st.reminder_sent_for_ts # st.last_bump_ts
           THEN IF HasChan(g, st)
                THEN /\ tick' = [tick EXCEPT !.pc = IF BuildRaises(st) THEN "raised"
                                                    ELSE "send"]
                     /\ UNCHANGED dueDone
                ELSE tick' = NextGuild /\ UNCHANGED dueDone
           ELSE /\ tick' = NextGuild
                /\ dueDone' = [dueDone EXCEPT ![g] = @ \/ DueNow(g)]
    /\ UNCHANGED <<pvars, avars, cvars>>
    /\ ev' = NoEv
    /\ UNCHANGED <<clock, _states, store, chan_name, budget,
                   recorded, succ, fails, dueSent, atRestart>>

\* one call of _save_all with the payload data
Save(data) ==
    \E o \in SaveOutcomes :
        /\ budget.save >= NFail(o)
        /\ budget' = [budget EXCEPT !.save = @ - NFail(o)]
        /\ store' = _save_all(store, data, o)

MarkSent_now(st, now) == [st EXCEPT !.reminder_sent_for_ts = now]

MarkSent_never(st, now) == st

MarkSent_rearm(st, now) ==
    [st EXCEPT !.reminder_sent_for_ts = st.last_bump_ts, !.last_bump_ts = now]

\* what line 397 stores once chan.send has returned
MarkSent(st, now) == [st EXCEPT !.reminder_sent_for_ts = st.last_bump_ts]

\* lines 392-398: chan.send returns; reminder_sent_for_ts = last_bump_ts; persist
TickSendOk ==
    /\ tick.pc = "send"
    /\ LET g == Head(tick.todo)
           S == [_states EXCEPT ![g] = MarkSent(_states[g], tick.now)]
       IN  /\ _states' = S
           /\ Save(Dump(S))
           /\ succ' = [succ EXCEPT ![g] = @ + 1]
           /\ dueSent' = [dueSent EXCEPT ![g] = IF DueNow(g) THEN @ + 1 ELSE @]
           /\ dueDone' = [dueDone EXCEPT ![g] = @ \/ DueNow(g)]
    /\ tick' = NextGuild
    /\ UNCHANGED <<pvars, avars, cvars>>
    /\ ev' = NoEv
    /\ UNCHANGED <<clock, chan_name, recorded, fails, atRestart>>

TickSendFail_marks ==
    /\ tick.pc = "send"
    /\ budget.send > 0
    /\ budget' = [budget EXCEPT !.send = @ - 1]
    /\ fails' = [fails EXCEPT ![Head(tick.todo)] = @ + 1]
    /\ _states' = [_states EXCEPT ![Head(tick.todo)] = MarkSent(@, tick.now)]
    /\ tick' = NextGuild
    /\ UNCHANGED <<pvars, avars, cvars>>
    /\ ev' = NoEv
    /\ UNCHANGED <<clock, store, chan_name, recorded, succ, dueDone, dueSent, atRestart>>

\* lines 399-402: chan.send raises Forbidden / HTTPException: pass
TickSendFail ==
    /\ tick.pc = "send"
    /\ budget.send > 0
    /\ budget' = [budget EXCEPT !.send = @ - 1]
    /\ fails' = [fails EXCEPT ![Head(tick.todo)] = @ + 1]
    /\ tick' = NextGuild
    /\ UNCHANGED <<pvars, avars, cvars>>
    /\ ev' = NoEv
    /\ UNCHANGED <<clock, _states, store, chan_name, recorded, succ, dueDone, dueSent, atRestart>>

\* lines 304 and 392: channel.edit or chan.send raises an exception that is
\* neither Forbidden nor HTTPException (OSError, asyncio.TimeoutError, ...); it
\* leaves _maybe_rename and _tick. tasks.loop runs the coroutine again after a
\* connection error (backoff) and ends the loop on any other exception (raised)
TickExternalRaises ==
    /\ tick.pc \in {"rename", "send"}
    /\ budget.err > 0
    /\ budget' = [budget EXCEPT !.err = @ - 1]
    /\ \E k \in {"backoff", "raised"} : tick' = [tick EXCEPT !.pc = k]
    /\ UNCHANGED <<pvars, avars, cvars>>
    /\ ev' = NoEv
    /\ UNCHANGED <<clock, _states, store, chan_name, Ghosts>>

\* tasks.loop calls _tick again after the backoff
LoopRetry ==
    /\ tick.pc = "backoff"
    /\ tick' = IdleTick
    /\ UNCHANGED <<pvars, avars, cvars>>
    /\ ev' = NoEv
    /\ UNCHANGED <<clock, _states, store, chan_name, budget, Ghosts>>

\* the for loop is exhausted: the coroutine returns until the next interval
TickEnd ==
    /\ tick.pc = "loop" /\ tick.todo = <<>>
    /\ tick' = IdleTick
    /\ UNCHANGED <<pvars, avars, cvars>>
    /\ ev' = NoEv
    /\ UNCHANGED <<clock, _states, store, chan_name, budget, Ghosts>>

(***************************** handlers ************************************)
\* messages on_message may receive: guild (None: a DM), author, and whether
\* "bump done" occurs in the lowered content / in the lowered embed texts
Messages ==
    { [guild |-> 1, author |-> DISBOARD_BOT_ID, content |-> TRUE, embed |-> FALSE],
      [guild |-> 2, author |-> DISBOARD_BOT_ID, content |-> FALSE, embed |-> TRUE],
      [guild |-> 1, author |-> DISBOARD_BOT_ID, content |-> FALSE, embed |-> FALSE],
      [guild |-> 1, author |-> "user", content |-> TRUE, embed |-> TRUE],
      [guild |-> None, author |-> DISBOARD_BOT_ID, content |-> TRUE, embed |-> FALSE] }

IsBumpAnyAuthor(m) == m.guild # None /\ (m.content \/ m.embed)

\* lines 313-323: the message is a successful bump
IsBump(m) ==
    /\ m.guild # None
    /\ m.author = DISBOARD_BOT_ID
    /\ (m.content \/ m.embed)

\* lines 326-327
RecordBump(st, now) == [st EXCEPT !.last_bump_ts = now, !.reminder_sent_for_ts = None]

\* the writes of a handler: one by _state when it creates the record (first),
\* then the handler's own
SaveTwice(first, data1, data2) ==
    \E o1, o2 \in SaveOutcomes :
        /\ (~first) => o1 = "ok"
        /\ budget.save >= NFail(o1) + NFail(o2)
        /\ budget' = [budget EXCEPT !.save = @ - (NFail(o1) + NFail(o2))]
        /\ store' = _save_all(IF first THEN _save_all(store, data1, o1) ELSE store, data2, o2)

ShouldReply_always(st) == TRUE

\* line 331: if st.bump_reply_template
ShouldReply(st) == st.bump_reply_template # NoTemplate

\* Bremind.on_message, lines 312-355; the reply of lines 349-354 is the last
\* statement of the handler, and an HTTPException it raises is swallowed
on_message(m) ==
    /\ Yielded
    /\ UNCHANGED <<pvars, avars, cvars>>
    /\ ev' = [op |-> "on_message", msg |-> m,
              reply |-> IsBump(m) /\ ShouldReply(WithState(_states, m.guild)[m.guild])]
    /\ IF IsBump(m)
       THEN LET g == m.guild
                S1 == WithState(_states, g)
                S2 == [S1 EXCEPT ![g] = RecordBump(S1[g], clock)]
            IN  /\ _states' = S2
                /\ SaveTwice(~Has(g), Dump(S1), Dump(S2))
                /\ recorded' = [recorded EXCEPT ![g] = @ \cup {clock}]
                /\ succ' = [succ EXCEPT ![g] = 0]
                /\ fails' = [fails EXCEPT ![g] = 0]
                /\ dueDone' = [dueDone EXCEPT ![g] = FALSE]
                /\ dueSent' = [dueSent EXCEPT ![g] = 0]
                /\ atRestart' = [atRestart EXCEPT ![g] = "none"]
       ELSE UNCHANGED <<_states, store, budget, Ghosts>>
    /\ UNCHANGED <<clock, tick, chan_name>>

\* Bremind.br_set_channel, lines 432-446
br_set_channel(g, channel, can_manage) ==
    /\ Yielded
    /\ UNCHANGED <<pvars, avars, cvars>>
    /\ ev' = NoEv
    /\ IF can_manage
       THEN LET S1 == WithState(_states, g)
                S2 == [S1 EXCEPT ![g].bump_channel_id = channel,
                                 ![g].rename_channel_id = channel]
            IN  /\ _states' = S2
                /\ SaveTwice(~Has(g), Dump(S1), Dump(S2))
       ELSE UNCHANGED <<_states, store, budget>>
    /\ UNCHANGED <<clock, tick, chan_name, Ghosts>>

\* Bremind.br_set_bump_response, lines 556-580: template "off" or "default"
br_set_bump_response(g, template, can_manage) ==
    /\ Yielded
    /\ UNCHANGED <<pvars, avars, cvars>>
    /\ ev' = NoEv
    /\ IF can_manage
       THEN LET S1 == WithState(_states, g)
                S2 == [S1 EXCEPT ![g].bump_reply_template =
                          IF template = "off" THEN NoTemplate ELSE DEFAULT_BUMP_REPLY]
            IN  /\ _states' = S2
                /\ SaveTwice(~Has(g), Dump(S1), Dump(S2))
       ELSE UNCHANGED <<_states, store, budget>>
    /\ UNCHANGED <<clock, tick, chan_name, Ghosts>>

\* Bremind.br_status, lines 469-496: reads the state, which _state creates
br_status(g) ==
    /\ Yielded
    /\ UNCHANGED <<pvars, avars, cvars>>
    /\ ev' = NoEv
    /\ IF Has(g)
       THEN UNCHANGED <<_states, store, budget>>
       ELSE /\ _states' = WithState(_states, g)
            /\ Save(Dump(WithState(_states, g)))
    /\ UNCHANGED <<clock, tick, chan_name, Ghosts>>

br_remind_now_marks(g, can_manage) ==
    /\ Yielded
    /\ UNCHANGED <<pvars, avars, cvars>>
    /\ IF can_manage
       THEN LET S1 == WithState(_states, g)
                sent == HasChan(g, S1[g]) /\ ~BuildRaises(S1[g])
            IN  /\ ev' = [op |-> "remind_now", msg |-> [NoMsg EXCEPT !.guild = g],
                          reply |-> sent]
                /\ _states' = IF sent THEN [S1 EXCEPT ![g] = MarkSent(S1[g], clock)]
                               ELSE S1
                /\ IF Has(g)
                   THEN UNCHANGED <<store, budget>>
                   ELSE Save(Dump(S1))
       ELSE ev' = NoEv /\ UNCHANGED <<_states, store, budget>>
    /\ UNCHANGED <<clock, tick, chan_name, Ghosts>>

\* Bremind.br_remind_now, lines 499-518: the record is read (and created by
\* _state); the reminder goes to the configured channel, else to the system
\* channel; reply: chan.send was called
br_remind_now(g, can_manage) ==
    /\ Yielded
    /\ UNCHANGED <<pvars, avars, cvars>>
    /\ IF can_manage
       THEN LET S1 == WithState(_states, g)
                sent == HasChan(g, S1[g]) /\ ~BuildRaises(S1[g])
            IN  /\ ev' = [op |-> "remind_now", msg |-> [NoMsg EXCEPT !.guild = g],
                          reply |-> sent]
                /\ _states' = S1
                /\ IF Has(g)
                   THEN UNCHANGED <<store, budget>>
                   ELSE Save(Dump(S1))
       ELSE ev' = NoEv /\ UNCHANGED <<_states, store, budget>>
    /\ UNCHANGED <<clock, tick, chan_name, Ghosts>>

\* the guild's record says the reminder for its last bump was sent
NotifiedRec(r) ==
    r # NoState /\ r.last_bump_ts # None /\ r.reminder_sent_for_ts = r.last_bump_ts

\* the process is restarted: Bremind.__init__ (lines 232-244) rebuilds _states
\* from the file; the running tick is lost
Restart ==
    /\ budget.restart > 0
    /\ budget' = [budget EXCEPT !.restart = @ - 1]
    /\ _states' = LoadStates(store)
    /\ tick' = Constructed(store)
    /\ UNCHANGED <<pvars, avars, cvars>>
    /\ ev' = NoEv
    /\ atRestart' = [g \in Guilds |->
            IF ~NotifiedRec(_states[g]) THEN "none"
            ELSE IF store.ok /\ store.guilds[g] = to_dict(_states[g]) THEN "both"
            ELSE "mem"]
    /\ succ' = [g \in Guilds |-> 0]
    /\ fails' = [g \in Guilds |-> 0]
    /\ UNCHANGED <<clock, store, chan_name, recorded, dueDone, dueSent>>

\* time passes
AdvanceClock ==
    /\ Yielded
    /\ \E t \in ClockValues : t > clock /\ clock' = t
    /\ UNCHANGED <<pvars, avars, cvars>>
    /\ ev' = NoEv
    /\ UNCHANGED <<_states, store, tick, chan_name, budget, Ghosts>>

(***************************** presence ************************************)
\* a rotation item (type, text, url); the url follows from the type
Item(at, text) == [type |-> at, text |-> text]
NoItem == Item("-", "")
RotItems == {Item("playing", "a"), Item("watching", "b")}
IntervalInputs == {0, 5}          \* interval_seconds of /rotstart
FileIntervals == {5, 45}         \* "interval" of a hand-edited file

\* presence_rotation.json as _ensure_store creates it
DefaultRotFile ==
    [ok |-> TRUE, rotation |-> <<>>, interval |-> DEFAULT_INTERVAL, activity |-> NoItem,
     autostart |-> FALSE, rotating |-> FALSE]

CorruptRotFile == [DefaultRotFile EXCEPT !.ok = FALSE]

RECURSIVE KeepText(_)
\* lines 50-56: the items whose text is not empty
KeepText(items) ==
    IF items = <<>> THEN <<>>
    ELSE IF Head(items).text # ""
         THEN <<Head(items)>> \o KeepText(Tail(items))
         ELSE KeepText(Tail(items))

ClampInterval_none(i) == i

\* max(10, int(...)), lines 58, 93 and 330
ClampInterval(i) == Max(MIN_INTERVAL, i)

\* _load_state: (rotation, interval, activity, autostart, rotating), the
\* defaults when the file cannot be parsed
_load_state(file) ==
    IF file.ok
    THEN [rotation |-> KeepText(file.rotation),
          interval |-> ClampInterval(file.interval),
          activity |-> IF file.activity.text # "" THEN file.activity ELSE NoItem,
          autostart |-> file.autostart,
          rotating |-> file.rotating]
    ELSE [rotation |-> <<>>, interval |-> DEFAULT_INTERVAL, activity |-> NoItem,
          autostart |-> FALSE, rotating |-> FALSE]

\* _save_state's payload
Payload(rotation, interval, activity, autostart, rotating) ==
    [ok |-> TRUE, rotation |-> rotation, interval |-> ClampInterval(interval),
     activity |-> IF activity.text # "" THEN activity ELSE NoItem,
     autostart |-> autostart, rotating |-> rotating]

\* _rotator_loop.is_running(): the task is not done; a cancelled task is done
\* only once the event loop has delivered the cancellation
is_running(l) == l # "stopped"

\* _rotator_loop.cancel()
cancel(l) == IF l = "running" THEN "cancelling" ELSE l

\* Presence._persist on the next state: _save_state with is_running(); a failed
\* write is swallowed and leaves the file as it was, or truncated
_persist ==
    \E o \in SaveOutcomes :
        /\ p_budget.save >= NFail(o)
        /\ p_budget' = [p_budget EXCEPT !.save = @ - NFail(o)]
        /\ LET data == Payload(_rotation', _rot_interval', _activity_tup', _autostart',
                               is_running(loop'))
           IN  rot_file' = CASE o = "ok" -> data
                             [] o = "fail" -> rot_file
                             [] OTHER -> CorruptRotFile
        /\ written' = IF o = "fail" THEN written ELSE TRUE

NextIndex_nowrap(i, n) == i + 1

NextIndex_long(i, n) == (i + 1) % (n + 1)

\* line 235
NextIndex(i, n) == (i + 1) % n

Push(v, x) == IF Len(v) < MaxVisit THEN Append(v, x) ELSE Append(Tail(v), x)

\* Presence._rotator_loop, lines 230-239: one iteration
RotTick ==
    /\ loop = "running"
    /\ pev' = IF _rot_index >= Len(_rotation) /\ _rotation # <<>>
              THEN "tick_norm" ELSE "tick"
    /\ UNCHANGED <<_rotation, _rot_interval, _autostart, _was_rotating_last_time, loop>>
    /\ IF _rotation = <<>>
       THEN UNCHANGED <<_rot_index, _activity_tup, rot_file, p_budget, written, visit>>
       ELSE LET n == Len(_rotation)
                i == _rot_index % n
            IN  /\ _rot_index' = NextIndex(i, n)
                /\ _activity_tup' = _rotation[i + 1]
                /\ visit' = Push(visit, i)
                /\ _persist
    /\ UNCHANGED <<bvars, avars, cvars>>
    /\ UNCHANGED session

\* the event loop delivers the cancellation: the task is done
CancelDelivered ==
    /\ loop = "cancelling"
    /\ loop' = "stopped"
    /\ pev' = "-"
    /\ UNCHANGED <<_rotation, _rot_index, _rot_interval, _autostart,
                   _was_rotating_last_time, _activity_tup, rot_file, p_budget,
                   written, visit>>
    /\ UNCHANGED <<bvars, avars, cvars>>
    /\ UNCHANGED session

on_ready_autostart_only ==
    /\ pev' = "-"
    /\ IF _autostart /\ _rotation # <<>> /\ ~is_running(loop)
       THEN /\ loop' = "running"
            /\ UNCHANGED <<_rotation, _rot_interval, _activity_tup, _autostart>>
            /\ _persist
       ELSE UNCHANGED <<loop, rot_file, p_budget, written>>
    /\ UNCHANGED <<_rotation, _rot_index, _rot_interval, _autostart,
                   _was_rotating_last_time, _activity_tup, visit>>
    /\ UNCHANGED <<bvars, avars, cvars>>
    /\ session' = IF session = "new" THEN "ready" ELSE session

\* Presence.on_ready, lines 178-193
on_ready ==
    /\ pev' = "-"
    /\ IF (_autostart \/ _was_rotating_last_time) /\ _rotation # <<>> /\ ~is_running(loop)
       THEN /\ loop' = "running"
            /\ UNCHANGED <<_rotation, _rot_interval, _activity_tup, _autostart>>
            /\ _persist
       ELSE UNCHANGED <<loop, rot_file, p_budget, written>>
    /\ UNCHANGED <<_rotation, _rot_index, _rot_interval, _autostart,
                   _was_rotating_last_time, _activity_tup, visit>>
    /\ UNCHANGED <<bvars, avars, cvars>>
    /\ session' = IF session = "new" THEN "ready" ELSE session

\* Presence.rotstart, lines 325-337
rotstart(interval_seconds, can_use) ==
    /\ IF ~can_use \/ _rotation = <<>>
       THEN /\ pev' = "-"
            /\ UNCHANGED <<_rot_interval, loop, rot_file, p_budget, written>>
       ELSE /\ pev' = "rotstart"
            /\ _rot_interval' =
                  ClampInterval(IF interval_seconds = 0 THEN DEFAULT_INTERVAL
                                ELSE interval_seconds)
            /\ loop' = IF is_running(loop) THEN loop ELSE "running"
            /\ UNCHANGED <<_rotation, _activity_tup, _autostart>>
            /\ _persist
    /\ UNCHANGED <<_rotation, _rot_index, _autostart, _was_rotating_last_time,
                   _activity_tup, visit>>
    /\ UNCHANGED <<bvars, avars, cvars>>
    /\ session' = IF can_use /\ _rotation # <<>> /\ session = "halted" THEN "ready"
                   ELSE session

\* Presence.rotstop, lines 345-352
rotstop(can_use) ==
    /\ IF ~can_use
       THEN /\ pev' = "-"
            /\ UNCHANGED <<loop, rot_file, p_budget, written>>
       ELSE /\ pev' = "rotstop"
            /\ loop' = cancel(loop)
            /\ UNCHANGED <<_rotation, _rot_interval, _activity_tup, _autostart>>
            /\ _persist
    /\ UNCHANGED <<_rotation, _rot_index, _rot_interval, _autostart,
                   _was_rotating_last_time, _activity_tup, visit>>
    /\ UNCHANGED <<bvars, avars, cvars>>
    /\ session' = IF can_use /\ loop = "running" /\ session # "off" THEN "halted"
                   ELSE session

\* Presence.rotadd, lines 358-370
rotadd(item, can_use) ==
    /\ pev' = "-"
    /\ Len(_rotation) < MaxRot
    /\ IF ~can_use
       THEN UNCHANGED <<_rotation, rot_file, p_budget, written, visit>>
       ELSE /\ _rotation' = Append(_rotation, item)
            /\ visit' = <<>>
            /\ UNCHANGED <<_rot_interval, _activity_tup, _autostart, loop>>
            /\ _persist
    /\ UNCHANGED <<_rot_index, _rot_interval, _autostart, _was_rotating_last_time,
                   _activity_tup, loop>>
    /\ UNCHANGED <<bvars, avars, cvars>>
    /\ UNCHANGED session

Pop(seq, k) == [j \in 1..(Len(seq) - 1) |-> IF j < k THEN seq[j] ELSE seq[j + 1]]

\* Presence.rotdel, lines 386-393
rotdel(index, can_use) ==
    /\ pev' = "-"
    /\ IF ~can_use \/ index < 1 \/ index > Len(_rotation)
       THEN UNCHANGED <<_rotation, rot_file, p_budget, written, visit>>
       ELSE /\ _rotation' = Pop(_rotation, index)
            /\ visit' = <<>>
            /\ UNCHANGED <<_rot_interval, _activity_tup, _autostart, loop>>
            /\ _persist
    /\ UNCHANGED <<_rot_index, _rot_interval, _autostart, _was_rotating_last_time,
                   _activity_tup, loop>>
    /\ UNCHANGED <<bvars, avars, cvars>>
    /\ UNCHANGED session

\* Presence.setactivity, lines 275-291
setactivity(item, can_use) ==
    /\ pev' = "-"
    /\ IF ~can_use
       THEN UNCHANGED <<_activity_tup, loop, rot_file, p_budget, written>>
       ELSE /\ loop' = cancel(loop)
            /\ _activity_tup' = item
            /\ UNCHANGED <<_rotation, _rot_interval, _autostart>>
            /\ _persist
    /\ UNCHANGED <<_rotation, _rot_index, _rot_interval, _autostart,
                   _was_rotating_last_time, visit>>
    /\ UNCHANGED <<bvars, avars, cvars>>
    /\ session' = IF can_use /\ loop = "running" /\ session # "off" THEN "halted"
                   ELSE session

\* Presence.clearactivity, lines 293-303
clearactivity(can_use) ==
    /\ pev' = "-"
    /\ IF ~can_use
       THEN UNCHANGED <<_activity_tup, loop, rot_file, p_budget, written>>
       ELSE /\ loop' = cancel(loop)
            /\ _activity_tup' = NoItem
            /\ UNCHANGED <<_rotation, _rot_interval, _autostart>>
            /\ _persist
    /\ UNCHANGED <<_rotation, _rot_index, _rot_interval, _autostart,
                   _was_rotating_last_time, visit>>
    /\ UNCHANGED <<bvars, avars, cvars>>
    /\ session' = IF can_use /\ loop = "running" /\ session # "off" THEN "halted"
                   ELSE session

\* Presence.on_disconnect, lines 195-198
on_disconnect ==
    /\ pev' = "-"
    /\ UNCHANGED <<_rotation, _rot_index, _rot_interval, _autostart,
                   _was_rotating_last_time, _activity_tup, loop, visit>>
    /\ _persist
    /\ UNCHANGED <<bvars, avars, cvars>>
    /\ UNCHANGED session

\* Presence.rotautostart, lines 248-253
rotautostart(state, can_use) ==
    /\ pev' = "-"
    /\ IF ~can_use
       THEN UNCHANGED <<_autostart, rot_file, p_budget, written>>
       ELSE /\ _autostart' = state
            /\ UNCHANGED <<_rotation, _rot_interval, _activity_tup, loop>>
            /\ _persist
    /\ UNCHANGED <<_rotation, _rot_index, _rot_interval, _was_rotating_last_time,
                   _activity_tup, loop, visit>>
    /\ UNCHANGED <<bvars, avars, cvars>>
    /\ UNCHANGED session

\* what Presence.__init__ (lines 133-154) builds from the file
Loaded(file) ==
    /\ _rotation = _load_state(file).rotation
    /\ _rot_index = 0
    /\ _rot_interval = _load_state(file).interval
    /\ _autostart = _load_state(file).autostart
    /\ _was_rotating_last_time = _load_state(file).rotating
    /\ _activity_tup = _load_state(file).activity
    /\ loop = "stopped"

\* the process is restarted: the loop task is gone, the cog is rebuilt by
\* Presence.__init__
PresenceRestart ==
    /\ p_budget.restart > 0
    /\ p_budget' = [p_budget EXCEPT !.restart = @ - 1]
    /\ _rotation' = _load_state(rot_file).rotation
    /\ _rot_index' = 0
    /\ _rot_interval' = _load_state(rot_file).interval
    /\ _autostart' = _load_state(rot_file).autostart
    /\ _was_rotating_last_time' = _load_state(rot_file).rotating
    /\ _activity_tup' = _load_state(rot_file).activity
    /\ loop' = "stopped"
    /\ visit' = <<>>
    /\ pev' = "-"
    /\ UNCHANGED <<rot_file, written>>
    /\ UNCHANGED <<bvars, avars, cvars>>
    /\ session' = IF session = "off" THEN "off" ELSE "new"

(***************************** afk *****************************************)
\* a member's nickname: whether it starts with "[AFK]", and the rest of it
\* ("-": the member has no nickname and shows the account name)
Nick(tag, base) == [tag |-> tag, base |-> base]
NoNick == Nick(FALSE, "-")

\* an entry of self.afk (period: which AFK period of the run it belongs to)
NoEntry == [period |-> 0, old_nick |-> NoNick]

InFlight(kind) == {i \in 1..Len(afk_tasks) : afk_tasks[i].kind = kind}

Drop(seq, k) == [j \in 1..(Len(seq) - 1) |-> IF j < k THEN seq[j] ELSE seq[j + 1]]

\* a step that does not reach _handle_mentions
NoMentions ==
    /\ aev' = [op |-> "-", author |-> 0, mentions |-> {}, notified |-> {}]
    /\ UNCHANGED <<_recent_notices, notice_ts>>

\* self.afk[user.id] = {...}, line 47: a new period if the user had no entry
SetEntry(u, old_nick) ==
    /\ afk' = [afk EXCEPT ![u] = [period |-> IF afk[u] = NoEntry THEN periods + 1
                                             ELSE afk[u].period,
                                  old_nick |-> old_nick]]
    /\ periods' = IF afk[u] = NoEntry THEN periods + 1 ELSE periods

\* AFK.afk, lines 30-44, up to the await of user.edit
afk_command(u) ==
    /\ periods + Cardinality(InFlight("afk")) < MaxPeriods
    /\ LET old0 == afk[u].old_nick
           old_nick == IF old0 = NoNick THEN nick[u] ELSE old0
       IN  IF old0 = NoNick /\ ~nick[u].tag
           THEN /\ Len(afk_tasks) < MaxInFlight
                /\ afk_tasks' = Append(afk_tasks, [kind |-> "afk", user |-> u,
                                                   old_nick |-> old_nick, period |-> 0,
                                                   mentions |-> {}])
                /\ UNCHANGED <<afk, nick, periods, announced>>
           ELSE /\ SetEntry(u, old_nick)
                /\ UNCHANGED <<nick, afk_tasks, announced>>
    /\ NoMentions
    /\ UNCHANGED afk_clock
    /\ UNCHANGED <<bvars, pvars, cvars>>

\* AFK.afk, lines 42-55: user.edit returns, or raises Forbidden / HTTPException
\* (ignored); the entry is stored
afk_edit_done(i, ok) ==
    /\ i \in InFlight("afk")
    /\ LET t == afk_tasks[i]
       IN  /\ nick' = IF ok THEN [nick EXCEPT ![t.user] = Nick(TRUE, t.old_nick.base)]
                      ELSE nick
           /\ SetEntry(t.user, t.old_nick)
    /\ afk_tasks' = Drop(afk_tasks, i)
    /\ UNCHANGED announced
    /\ NoMentions
    /\ UNCHANGED afk_clock
    /\ UNCHANGED <<bvars, pvars, cvars>>

NoticeKey_target(author, target) == <<target, target>>

\* line 132: key = (author.id, target.id)
NoticeKey(author, target) == <<author, target>>

\* lines 126-135: the mentioned users who are AFK and whose key has had no
\* notice for MENTION_COOLDOWN_S seconds (line 134: .get(key, 0.0))
ToNotify(author, mentions, now) ==
    {t \in mentions :
        LET key == NoticeKey(author, t)
            last == IF key \in DOMAIN _recent_notices THEN _recent_notices[key] ELSE 0
        IN  /\ afk[t] # NoEntry
            /\ ~(now - last < MENTION_COOLDOWN_S)}

\* AFK._handle_mentions, lines 122-153: the targets of one message have
\* distinct keys; line 136 stores now for each notice, then one message with
\* all notices is sent
_handle_mentions(author, mentions, now) ==
    LET notified == ToNotify(author, mentions, now)
    IN  /\ _recent_notices' =
              [k \in DOMAIN _recent_notices \cup {NoticeKey(author, t) : t \in notified} |->
                  IF \E t \in notified : NoticeKey(author, t) = k THEN now
                  ELSE _recent_notices[k]]
        /\ notice_ts' =
              [k \in DOMAIN notice_ts \cup {<<author, t>> : t \in notified} |->
                  IF k[1] = author /\ k[2] \in notified THEN now ELSE notice_ts[k]]
        /\ aev' = [op |-> "mentions", author |-> author, mentions |-> mentions,
                   notified |-> notified]

Popped_keep(a, u) == a

\* self.afk.pop(member.id, None), line 102: the dict without the entry
Popped(a, u) == [a EXCEPT ![u] = NoEntry]

\* the coroutine that made the announcement: on_message goes on to the
\* mentions once announce_channel.send has returned
Announced(t, mentions) ==
    IF mentions = {} THEN <<>>
    ELSE <<[kind |-> "mentions", user |-> t.user, old_nick |-> NoNick,
            period |-> t.period, mentions |-> mentions]>>

\* AFK._clear_afk, lines 101-120, up to the await of member.edit, or to the
\* call of announce_channel.send when the nickname has no [AFK] tag
_clear_afk(u, mentions) ==
    IF afk[u] = NoEntry
    THEN UNCHANGED <<afk, nick, afk_tasks, periods, announced>>
    ELSE /\ afk' = Popped(afk, u)
         /\ (nick[u].tag \/ mentions # {}) => Len(afk_tasks) < MaxInFlight
         /\ IF nick[u].tag
            THEN /\ afk_tasks' = Append(afk_tasks, [kind |-> "clear", user |-> u,
                                                    old_nick |-> afk[u].old_nick,
                                                    period |-> afk[u].period,
                                                    mentions |-> mentions])
                 /\ UNCHANGED announced
            ELSE /\ announced' = [announced EXCEPT ![afk[u].period] = @ + 1]
                 /\ afk_tasks' = afk_tasks \o Announced([user |-> u,
                                                         period |-> afk[u].period],
                                                        mentions)
         /\ UNCHANGED <<nick, periods>>

\* AFK._clear_afk, lines 109-120: member.edit(nick=old) returns, or raises
\* Forbidden / HTTPException (ignored); then the announcement is sent
clear_edit_done(i, ok) ==
    /\ i \in InFlight("clear")
    /\ LET t == afk_tasks[i]
       IN  /\ nick' = IF ok THEN [nick EXCEPT ![t.user] = t.old_nick] ELSE nick
           /\ announced' = [announced EXCEPT ![t.period] = @ + 1]
           /\ afk_tasks' = Drop(afk_tasks, i) \o Announced(t, t.mentions)
    /\ UNCHANGED <<afk, periods>>
    /\ NoMentions
    /\ UNCHANGED afk_clock
    /\ UNCHANGED <<bvars, pvars, cvars>>

\* AFK.on_message, lines 95-97, after the announcement, when time.time() is
\* now: announce_channel.send has returned or raised Forbidden (ok), or raised
\* an HTTPException, which ends the handler
mentions_resume(i, ok, now) ==
    /\ i \in InFlight("mentions")
    /\ now >= afk_clock
    /\ afk_clock' = now
    /\ IF ok
       THEN _handle_mentions(afk_tasks[i].user, afk_tasks[i].mentions, now)
       ELSE NoMentions
    /\ afk_tasks' = Drop(afk_tasks, i)
    /\ UNCHANGED <<afk, nick, periods, announced>>
    /\ UNCHANGED <<bvars, pvars, cvars>>

\* AFK.on_message, lines 86-97: a message of user u that mentions the users
\* of mentions, handled when time.time() is now (ignored: from a bot, or
\* outside a guild)
afk_on_message(u, ignored, mentions, now) ==
    /\ now >= afk_clock
    /\ afk_clock' = now
    /\ IF ignored
       THEN UNCHANGED <<afk, nick, afk_tasks, periods, announced>> /\ NoMentions
       ELSE IF afk[u] # NoEntry
       THEN _clear_afk(u, mentions) /\ NoMentions
       ELSE /\ UNCHANGED <<afk, nick, afk_tasks, periods, announced>>
            /\ IF mentions # {} THEN _handle_mentions(u, mentions, now)
               ELSE NoMentions
    /\ UNCHANGED <<bvars, pvars, cvars>>

\* AFK.back, lines 57-59
back(u) ==
    /\ _clear_afk(u, {})
    /\ NoMentions
    /\ UNCHANGED afk_clock
    /\ UNCHANGED <<bvars, pvars, cvars>>

(***************************** triggers ************************************)
\* lines 58-73: the first trigger, in the order of TRIGGERS, that is a word of
\* the message ("-": none); both triggers are single words
Hit(words) ==
    IF "1" \in words THEN "1" ELSE IF "testing" \in words THEN "testing" ELSE "-"

CooldownKey_channel(channel, hit_key) == <<channel, "1">>

\* line 77: cd_key = (message.channel.id, hit_key)
CooldownKey(channel, hit_key) == <<channel, hit_key>>

\* Triggers.on_message, lines 40-93: a message in a channel whose words
\* include the triggers of words, handled when time.time() is now (ignored:
\* from a bot, outside a guild, a valid command, or empty); lines 75-82 run
\* with no await between them, and the reply is then sent
trig_on_message(channel, words, ignored, now) ==
    /\ now >= triggers.clock
    /\ LET hit_key == Hit(words)
           cd_key == CooldownKey(channel, hit_key)
           _cooldowns == triggers._cooldowns
           last == IF cd_key \in DOMAIN _cooldowns THEN _cooldowns[cd_key] ELSE 0
           cooling == now - last < COOLDOWN_SECONDS
       IN  IF ~ignored /\ hit_key # "-" /\ ~cooling
           THEN triggers' =
                  [_cooldowns |-> [k \in DOMAIN _cooldowns \cup {cd_key} |->
                                      IF k = cd_key THEN now ELSE _cooldowns[k]],
                   clock |-> now,
                   reply_ts |-> [k \in DOMAIN triggers.reply_ts
                                         \cup {<<channel, hit_key>>} |->
                                    IF k = <<channel, hit_key>> THEN now
                                    ELSE triggers.reply_ts[k]],
                   ev |-> [channel |-> channel, words |-> words, sent |-> hit_key]]
           ELSE triggers' =
                  [triggers EXCEPT
                     !.clock = now,
                     !.ev = [channel |-> IF ignored THEN 0 ELSE channel,
                             words |-> IF ignored THEN {} ELSE words, sent |-> "-"]]
    /\ UNCHANGED <<bvars, pvars, avars, sticky, tickets>>

(***************************** sticky message ******************************)
\* StickyMessage.on_message, lines 11-32, up to asyncio.sleep(0): a user's
\* message in the target channel (mine: the bot's own message)
sticky_on_message(created_at, mine) ==
    /\ Len(sticky.tasks) < MaxInFlight
    /\ IF mine \/ (/\ sticky.last_message_time # None
                   /\ created_at - sticky.last_message_time < 7)
       THEN UNCHANGED sticky
       ELSE sticky' = [sticky EXCEPT !.tasks = Append(@,
               [kind |-> "on_message", pc |-> "sleep", created_at |-> created_at,
                ref |-> None, content |-> "Enter your sticky message here",
                want |-> sticky.custom])]
    /\ UNCHANGED <<bvars, pvars, avars, triggers, tickets>>

\* StickyMessage.set_sticky, lines 50-66, up to its first await: the delete
\* of the stored message, or the send when none is stored
set_sticky(message) ==
    /\ Len(sticky.tasks) < MaxInFlight
    /\ sticky' = [sticky EXCEPT
          !.tasks = Append(@,
             [kind |-> "set_sticky",
              pc |-> IF sticky.sticky_message # None THEN "delete" ELSE "send",
              created_at |-> None, ref |-> sticky.sticky_message,
              content |-> message, want |-> "-"]),
          !.custom = "-"]
    /\ UNCHANGED <<bvars, pvars, avars, triggers, tickets>>

\* a suspended coroutine of the cog goes on to its next await or to its end:
\* after the sleep (lines 34-42) it deletes the stored message or sends; after
\* the delete (lines 36-42, 61-66; NotFound is ignored) it sends; after the
\* send (lines 42-48, 66-67) it stores the new message
sticky_resume(i) ==
    /\ i \in 1..Len(sticky.tasks)
    /\ LET t == sticky.tasks[i]
       IN  CASE t.pc = "sleep" ->
                  sticky' = [sticky EXCEPT
                     !.tasks[i] = [t EXCEPT !.pc = IF sticky.sticky_message # None
                                                   THEN "delete" ELSE "send",
                                            !.ref = sticky.sticky_message]]
             [] t.pc = "delete" ->
                  sticky' = [sticky EXCEPT
                     !.target_channel = {m \in @ : m.id # t.ref},
                     !.tasks[i] = [t EXCEPT !.pc = "send"]]
             [] t.pc = "send" ->
                  /\ sticky.posted < MaxPosts
                  /\ sticky' = [sticky EXCEPT
                        !.posted = @ + 1,
                        !.target_channel = @ \cup
                           {[id |-> sticky.posted + 1, content |-> t.content,
                             by |-> t.kind, want |-> t.want]},
                        !.sticky_message = sticky.posted + 1,
                        !.last_message_time = IF t.kind = "on_message"
                                              THEN t.created_at ELSE @,
                        !.custom = IF t.kind = "set_sticky" THEN t.content ELSE @,
                        !.tasks = Drop(@, i)]
    /\ UNCHANGED <<bvars, pvars, avars, triggers, tickets>>

(***************************** tickets *************************************)
_g_preset(st) ==
    IF st = <<>> THEN <<[category_id |-> 1, staff_role_id |-> 7]>> ELSE st

\* _g, lines 36-48: the guild's record, created with no value set if the
\* store has none (<<>>: no record)
_g(st) ==
    IF st = <<>> THEN <<[category_id |-> None, staff_role_id |-> None]>> ELSE st

_is_staff_any(roles, staff_role_id) == roles # {}

\* _is_staff, lines 51-52
_is_staff(roles, staff_role_id) == staff_role_id # None /\ staff_role_id \in roles

\* Tickets.ticketpanel, lines 317-346: a member with manage_guild names the
\* category and the staff role; the store is saved
ticketpanel(staff_role) ==
    /\ tickets.category_exists
    /\ tickets' = [tickets EXCEPT
          !.store = <<[category_id |-> 1, staff_role_id |-> staff_role]>>,
          !.file = <<[category_id |-> 1, staff_role_id |-> staff_role]>>,
          !.ev = [op |-> "ticketpanel", roles |-> {}, replied |-> TRUE]]
    /\ UNCHANGED <<bvars, pvars, avars, triggers, sticky>>

\* an admin of the guild deletes the category
category_deleted ==
    /\ tickets.category_exists
    /\ tickets' = [tickets EXCEPT
          !.category_exists = FALSE,
          !.ev = [op |-> "-", roles |-> {}, replied |-> FALSE]]
    /\ UNCHANGED <<bvars, pvars, avars, triggers, sticky>>

\* TicketPanelView.open_ticket, lines 100-147: a press of Open Ticket
\* (in_guild: by a member, in a guild); the channel is created with the
\* opener allowed to send and with the Close panel
open_ticket(in_guild) ==
    /\ tickets.created < MaxTickets
    /\ LET cfg == _g(tickets.store)[1]
           pressed == [tickets EXCEPT
                         !.ev = [op |-> "open_ticket", roles |-> {}, replied |-> TRUE]]
           read == [pressed EXCEPT !.store = _g(@)]
       IN  tickets' =
             IF ~in_guild THEN pressed
             ELSE IF cfg.category_id = None \/ cfg.staff_role_id = None
                     \/ ~tickets.category_exists
             THEN read
             ELSE IF tickets.ticket = None
             THEN [read EXCEPT !.created = @ + 1,
                               !.ticket = tickets.created + 1,
                               !.opener_send = TRUE,
                               !.panel = "close",
                               !.last_press = "none"]
             ELSE [read EXCEPT !.created = @ + 1]
    /\ UNCHANGED <<bvars, pvars, avars, triggers, sticky>>

\* TicketCloseView.close, lines 166-185, up to the await of channel.edit: a
\* press of Close by a member with the roles of roles
close(roles) ==
    /\ tickets.ticket # None /\ tickets.panel = "close"
    /\ LET read == [tickets EXCEPT
                      !.store = _g(@),
                      !.ev = [op |-> "close", roles |-> roles, replied |-> TRUE]]
       IN  IF _is_staff(roles, _g(tickets.store)[1].staff_role_id)
           THEN /\ Len(tickets.tasks) < MaxInFlight
                /\ tickets' = [read EXCEPT
                      !.tasks = Append(@, [op |-> "close", pc |-> "edit",
                                           channel |-> tickets.ticket,
                                           send |-> FALSE, view |-> "controls"]),
                      !.last_press = "close"]
           ELSE tickets' = read
    /\ UNCHANGED <<bvars, pvars, avars, triggers, sticky>>

\* TicketControlsView.reopen, lines 231-248, up to the await of channel.edit
reopen(roles) ==
    /\ tickets.ticket # None /\ tickets.panel = "controls"
    /\ LET read == [tickets EXCEPT
                      !.store = _g(@),
                      !.ev = [op |-> "reopen", roles |-> roles, replied |-> TRUE]]
       IN  IF _is_staff(roles, _g(tickets.store)[1].staff_role_id)
           THEN /\ Len(tickets.tasks) < MaxInFlight
                /\ tickets' = [read EXCEPT
                      !.tasks = Append(@, [op |-> "reopen", pc |-> "edit",
                                           channel |-> tickets.ticket,
                                           send |-> TRUE, view |-> "close"]),
                      !.last_press = "reopen"]
           ELSE tickets' = read
    /\ UNCHANGED <<bvars, pvars, avars, triggers, sticky>>

\* TicketControlsView.transcript, lines 212-229: the transcript is built and
\* sent to the transcript channel or to the ticket itself
transcript(roles) ==
    /\ tickets.ticket # None /\ tickets.panel = "controls"
    /\ LET read == [tickets EXCEPT
                      !.store = _g(@),
                      !.ev = [op |-> "transcript", roles |-> roles, replied |-> TRUE]]
       IN  IF _is_staff(roles, _g(tickets.store)[1].staff_role_id)
           THEN /\ tickets.transcripts < MaxTranscripts
                /\ tickets' = [read EXCEPT !.transcripts = @ + 1]
           ELSE tickets' = read
    /\ UNCHANGED <<bvars, pvars, avars, triggers, sticky>>

\* TicketControlsView.delete, lines 259-278, up to asyncio.sleep(5)
delete(roles) ==
    /\ tickets.ticket # None /\ tickets.panel = "controls"
    /\ LET read == [tickets EXCEPT
                      !.store = _g(@),
                      !.ev = [op |-> "delete", roles |-> roles, replied |-> TRUE]]
       IN  IF _is_staff(roles, _g(tickets.store)[1].staff_role_id)
           THEN /\ Len(tickets.tasks) < MaxInFlight
                /\ tickets' = [read EXCEPT
                      !.tasks = Append(@, [op |-> "delete", pc |-> "sleep",
                                           channel |-> tickets.ticket,
                                           send |-> FALSE, view |-> "-"])]
           ELSE tickets' = read
    /\ UNCHANGED <<bvars, pvars, avars, triggers, sticky>>

\* a suspended button handler goes on: channel.edit has set the opener's
\* overwrite (lines 185, 248), the controls message has got its new view
\* (lines 193, 257), or the channel is deleted after the sleep (line 279);
\* on a channel that is gone the call raises and the handler ends
tk_resume(i) ==
    /\ i \in 1..Len(tickets.tasks)
    /\ LET t == tickets.tasks[i]
           quiet == [tickets EXCEPT
                       !.ev = [op |-> "-", roles |-> {}, replied |-> FALSE]]
       IN  tickets' =
             IF t.channel # tickets.ticket
             THEN [quiet EXCEPT !.tasks = Drop(@, i)]
             ELSE CASE t.pc = "edit" ->
                         [quiet EXCEPT !.opener_send = t.send,
                                       !.tasks[i] = [t EXCEPT !.pc = "view"]]
                    [] t.pc = "view" ->
                         [quiet EXCEPT !.panel = t.view, !.tasks = Drop(@, i)]
                    [] t.pc = "sleep" ->
                         [quiet EXCEPT !.ticket = None, !.tasks = Drop(@, i)]
    /\ UNCHANGED <<bvars, pvars, avars, triggers, sticky>>

(***************************** specifications ******************************)
\* the AFK cog after __init__; user 2 has a nickname
\* the other cogs right after construction
CogsIdle ==
    /\ triggers = [_cooldowns |-> [k \in {} |-> 0], clock |-> 1000,
                   reply_ts |-> [k \in {} |-> 0],
                   ev |-> [channel |-> 0, words |-> {}, sent |-> "-"]]
    /\ sticky = [sticky_message |-> None, last_message_time |-> None,
                 tasks |-> <<>>, target_channel |-> {}, posted |-> 0, custom |-> "-"]
    /\ tickets = [store |-> <<>>, file |-> <<>>, category_exists |-> TRUE,
                  created |-> 0, ticket |-> None, opener_send |-> FALSE,
                  panel |-> "close", transcripts |-> 0, tasks |-> <<>>,
                  last_press |-> "none",
                  ev |-> [op |-> "-", roles |-> {}, replied |-> FALSE]]

AfkIdle ==
    /\ afk = [u \in Users |-> NoEntry]
    /\ nick = [u \in Users |-> IF u = 2 THEN Nick(FALSE, "bob") ELSE NoNick]
    /\ afk_tasks = <<>>
    /\ periods = 0
    /\ announced = [p \in 1..MaxPeriods |-> 0]
    /\ afk_clock = 1000
    /\ _recent_notices = [k \in {} |-> 0]
    /\ notice_ts = [k \in {} |-> 0]
    /\ aev = [op |-> "-", author |-> 0, mentions |-> {}, notified |-> {}]

\* the presence cog right after its first start, with no fault to come
PresenceIdle ==
    /\ rot_file = DefaultRotFile
    /\ Loaded(DefaultRotFile)
    /\ p_budget = [save |-> 0, restart |-> 0]
    /\ written = TRUE /\ visit = <<>> /\ pev = "-" /\ session = "off"

InitCommon ==
    /\ PresenceIdle
    /\ AfkIdle
    /\ CogsIdle
    /\ clock = 0
    /\ chan_name = [g \in Guilds |-> OtherName]
    /\ recorded = [g \in Guilds |-> {}]
    /\ succ = [g \in Guilds |-> 0]
    /\ fails = [g \in Guilds |-> 0]
    /\ dueDone = [g \in Guilds |-> FALSE]
    /\ dueSent = [g \in Guilds |-> 0]
    /\ atRestart = [g \in Guilds |-> "none"]
    /\ ev = NoEv

TickSteps ==
    \/ TickStart
    \/ TickGuild
    \/ RenameDone
    \/ TickAfterRename
    \/ TickSendOk
    \/ TickSendFail
    \/ TickEnd

BumpMessages == {m \in Messages : m.guild # None /\ m.author = DISBOARD_BOT_ID
                                     /\ (m.content \/ m.embed)}

Handlers(msgs) ==
    \/ \E m \in msgs : on_message(m)
    \/ \E g \in Configured, c \in ChannelIds, p \in BOOLEAN : br_set_channel(g, c, p)
    \/ \E g \in Configured, t \in {"off", "default"}, p \in BOOLEAN :
          br_set_bump_response(g, t, p)
    \/ \E g \in Guilds : br_status(g)
    \/ AdvanceClock

vars == <<bvars, pvars, avars, cvars>>

\* one run of the process on a disk that takes every write: first start
\* (_ensure_store writes {} and __init__ loads it), sends may fail
InitRun ==
    /\ InitCommon
    /\ store = EmptyFile
    /\ _states = LoadStates(EmptyFile)
    /\ tick = Constructed(EmptyFile)
    /\ budget = [save |-> 0, restart |-> 0, send |-> MaxSendFails, err |-> 0]

NextRun ==
    \/ TickSteps
    \/ Handlers(Messages)
    \/ \E g \in Configured, p \in BOOLEAN : br_remind_now(g, p)

SpecRun == InitRun /\ [][NextRun]_vars

\* the same with failing writes and restarts of the process; the messages are
\* the bumps
Init ==
    /\ InitCommon
    /\ store = EmptyFile
    /\ _states = LoadStates(EmptyFile)
    /\ tick = Constructed(EmptyFile)
    /\ budget = [save |-> MaxSaveFails, restart |-> MaxRestarts, send |-> MaxSendFails, err |-> 0]

Next == TickSteps \/ Handlers(BumpMessages) \/ Restart

Spec == Init /\ [][Next]_vars

\* a start on a bremind.json that was edited by hand: records with a cooldown_s
\* of 5 seconds, with and without the other keys; a JSON array; text that is
\* not JSON; a payload that is not an object next to a well-formed one
FileSamples ==
    { [ok |-> TRUE, top |-> "object", guilds |-> [g \in Guilds |->
          IF g = 1 THEN [cooldown_s |-> 5, last_bump_ts |-> 0] ELSE NoState]],
      [ok |-> TRUE, top |-> "object", guilds |-> [g \in Guilds |->
          IF g = 1 THEN to_dict(GuildState) ELSE [cooldown_s |-> 5]]],
      ArrayFile,
      Corrupt,
      [ok |-> TRUE, top |-> "object", guilds |-> [g \in Guilds |->
          IF g = 1 THEN NotADict ELSE [last_bump_ts |-> 0]]] }

InitFile ==
    /\ InitCommon
    /\ store \in FileSamples
    /\ _states = LoadStates(store)
    /\ tick = Constructed(store)
    /\ budget = [save |-> 0, restart |-> 0, send |-> MaxSendFails, err |-> 0]

SpecFile == InitFile /\ [][NextRun]_vars

\* a start on a file in which guild 1's embed colour is a word, and a start on
\* the empty file; external calls may raise what the tick does not catch
ErrFileSamples ==
    { EmptyFile,
      [ok |-> TRUE, top |-> "object", guilds |-> [g \in Guilds |->
          IF g = 1 THEN [to_dict(GuildState) EXCEPT !.embed_color = "red",
                                                    !.bump_channel_id = 101,
                                                    !.last_bump_ts = 0]
          ELSE [to_dict(GuildState) EXCEPT !.last_bump_ts = 0]]] }

InitErr ==
    /\ InitCommon
    /\ store \in ErrFileSamples
    /\ _states = LoadStates(store)
    /\ tick = Constructed(store)
    /\ budget = [save |-> 0, restart |-> 0, send |-> MaxSendFails, err |-> MaxRaises]

NextErr == NextRun \/ TickExternalRaises \/ LoopRetry

SpecErr == InitErr /\ [][NextErr]_vars

\* ticks at times around the end of a cooldown of 7200 s that began at 1000,
\* for a guild with a channel to rename and one without
LabelClock == {1000, 1001, 8139, 8141, 8200, 8600}

LabelFile ==
    [ok |-> TRUE, top |-> "object", guilds |-> [g \in Guilds |->
        IF g = 1 THEN [bump_channel_id |-> 101, rename_channel_id |-> 101,
                       last_bump_ts |-> 1000]
        ELSE [last_bump_ts |-> 1000]]]

AdvanceLabelClock ==
    /\ Yielded
    /\ \E t \in LabelClock : t > clock /\ clock' = t
    /\ UNCHANGED <<pvars, avars, cvars>>
    /\ ev' = NoEv
    /\ UNCHANGED <<_states, store, tick, chan_name, budget, Ghosts>>

InitLabel ==
    /\ InitCommon
    /\ store = LabelFile
    /\ _states = LoadStates(store)
    /\ tick = Constructed(store)
    /\ budget = [save |-> 0, restart |-> 0, send |-> MaxSendFails, err |-> 0]

NextLabel == TickSteps \/ AdvanceLabelClock

SpecLabel == InitLabel /\ [][NextLabel]_vars

\* the presence cog, started on a file that _ensure_store created or that was
\* edited by hand (an interval of 5, an item with an empty text)
RotFileSamples ==
    {DefaultRotFile}
    \cup { [ok |-> TRUE, rotation |-> r, interval |-> i, activity |-> NoItem,
            autostart |-> FALSE, rotating |-> FALSE] :
            r \in {<<>>, <<Item("playing", "a"), Item("playing", "")>>}, i \in FileIntervals }

InitPresence ==
    /\ AfkIdle
    /\ CogsIdle
    /\ clock = 0
    /\ tick = IdleTick
    /\ chan_name = [g \in Guilds |-> OtherName]
    /\ recorded = [g \in Guilds |-> {}]
    /\ succ = [g \in Guilds |-> 0]
    /\ fails = [g \in Guilds |-> 0]
    /\ dueDone = [g \in Guilds |-> FALSE]
    /\ dueSent = [g \in Guilds |-> 0]
    /\ atRestart = [g \in Guilds |-> "none"]
    /\ ev = NoEv
    /\ store = EmptyFile
    /\ _states = LoadStates(EmptyFile)
    /\ budget = [save |-> 0, restart |-> 0, send |-> 0, err |-> 0]
    /\ rot_file \in RotFileSamples
    /\ Loaded(rot_file)
    /\ p_budget = [save |-> MaxSaveFails, restart |-> MaxRestarts]
    /\ written = (rot_file = DefaultRotFile)
    /\ visit = <<>> /\ pev = "-" /\ session = "off"

NextPresence ==
    \/ RotTick
    \/ CancelDelivered
    \/ on_ready
    \/ \E i \in IntervalInputs, p \in BOOLEAN : rotstart(i, p)
    \/ \E p \in BOOLEAN : rotstop(p)
    \/ \E it \in RotItems, p \in BOOLEAN : rotadd(it, p)
    \/ \E k \in 0..(MaxRot + 1), p \in BOOLEAN : rotdel(k, p)
    \/ \E it \in RotItems, p \in BOOLEAN : setactivity(it, p)
    \/ \E p \in BOOLEAN : clearactivity(p)
    \/ on_disconnect
    \/ \E st \in BOOLEAN, p \in BOOLEAN : rotautostart(st, p)
    \/ PresenceRestart

SpecPresence == InitPresence /\ [][NextPresence]_vars

\* the presence cog started on a file a previous session wrote, on a disk that
\* takes every write; the sessions of the process are recorded
BootFileSamples ==
    { Payload(r, DEFAULT_INTERVAL, NoItem, a, rotating) :
        r \in {<<>>, <<Item("playing", "a"), Item("watching", "b")>>},
        a \in BOOLEAN, rotating \in BOOLEAN }

InitBoot ==
    /\ AfkIdle
    /\ CogsIdle
    /\ clock = 0
    /\ tick = IdleTick
    /\ chan_name = [g \in Guilds |-> OtherName]
    /\ recorded = [g \in Guilds |-> {}]
    /\ succ = [g \in Guilds |-> 0]
    /\ fails = [g \in Guilds |-> 0]
    /\ dueDone = [g \in Guilds |-> FALSE]
    /\ dueSent = [g \in Guilds |-> 0]
    /\ atRestart = [g \in Guilds |-> "none"]
    /\ ev = NoEv
    /\ store = EmptyFile
    /\ _states = LoadStates(EmptyFile)
    /\ budget = [save |-> 0, restart |-> 0, send |-> 0, err |-> 0]
    /\ rot_file \in BootFileSamples
    /\ Loaded(rot_file)
    /\ p_budget = [save |-> 0, restart |-> MaxRestarts]
    /\ written = TRUE
    /\ visit = <<>> /\ pev = "-" /\ session = "new"

SpecBoot == InitBoot /\ [][NextPresence]_vars

\* the AFK cog alone: the commands and messages of two users, handled with
\* interleaving at the awaits
InitAfk ==
    /\ InitCommon
    /\ store = EmptyFile
    /\ _states = LoadStates(EmptyFile)
    /\ tick = Constructed(EmptyFile)
    /\ budget = [save |-> 0, restart |-> 0, send |-> 0, err |-> 0]

NextAfk ==
    \/ \E u \in Users : afk_command(u)
    \/ \E i \in 1..MaxInFlight, ok \in BOOLEAN : afk_edit_done(i, ok)
    \/ \E u \in Users, ignored \in BOOLEAN : afk_on_message(u, ignored, {}, afk_clock)
    \/ \E u \in Users : back(u)
    \/ \E i \in 1..MaxInFlight, ok \in BOOLEAN : clear_edit_done(i, ok)

SpecAfk == InitAfk /\ [][NextAfk]_vars

\* the AFK cog with messages that mention users at various times: nickname
\* edits succeed, and a message arrives when no coroutine of the cog is
\* suspended (/afk may run at any time)
NextMention ==
    \/ \E u \in Users : afk_command(u)
    \/ \E i \in 1..MaxInFlight : afk_edit_done(i, TRUE)
    \/ \E u \in Users, mentions \in SUBSET Users, now \in AfkClock :
          afk_tasks = <<>> /\ afk_on_message(u, FALSE, mentions, now)
    \/ \E i \in 1..MaxInFlight : clear_edit_done(i, TRUE)
    \/ \E i \in 1..MaxInFlight, ok \in BOOLEAN, now \in AfkClock :
          mentions_resume(i, ok, now)

SpecMention == InitAfk /\ [][NextMention]_vars

\* the triggers cog alone: messages in two channels while time passes
NextTriggers ==
    \E channel \in TextChannels, words \in SUBSET TriggerKeys, ignored \in BOOLEAN,
       now \in TrigClock : trig_on_message(channel, words, ignored, now)

SpecTriggers == InitAfk /\ [][NextTriggers]_vars

\* the sticky cog alone: user messages and /set_sticky, handled with
\* interleaving at the awaits; both target_channel_id values name one channel
NextSticky ==
    \/ \E created_at \in CreatedAt, mine \in BOOLEAN : sticky_on_message(created_at, mine)
    \/ \E message \in StickyTexts : set_sticky(message)
    \/ \E i \in 1..MaxInFlight : sticky_resume(i)

SpecSticky == InitAfk /\ [][NextSticky]_vars

\* the tickets cog alone: one guild, its panel, and the buttons of the first
\* ticket channel, pressed by members with any roles and handled with
\* interleaving at the awaits
NextTickets ==
    \/ \E staff_role \in Roles : ticketpanel(staff_role)
    \/ category_deleted
    \/ \E in_guild \in BOOLEAN : open_ticket(in_guild)
    \/ \E roles \in SUBSET Roles : close(roles)
    \/ \E roles \in SUBSET Roles : reopen(roles)
    \/ \E roles \in SUBSET Roles : transcript(roles)
    \/ \E roles \in SUBSET Roles : delete(roles)
    \/ \E i \in 1..MaxInFlight : tk_resume(i)

SpecTickets == InitAfk /\ [][NextTickets]_vars

(***************************** bump reminder: claims ***********************)
Notified(g) == NotifiedRec(_states[g])

\* C1: while a guild's reminder_sent_for_ts equals its last_bump_ts no step
\* sends it a reminder, and between two bumps the ticks of one run deliver at
\* most one reminder.
C1_AtMostOnce ==
    [][\A g \in Guilds :
          /\ Notified(g) => succ'[g] <= succ[g]
          /\ succ'[g] <= 1]_vars

\* a tick decides on a ready guild that already got its reminder
C1_Witness ==
    /\ tick.pc = "afterRename" /\ Head(tick.todo) = 1 /\ tick.ready
    /\ Notified(1) /\ succ[1] = 1

\* C2: once a tick whose now is at least cooldown_s after the guild's last bump
\* has finished with the guild (channel found, send succeeded), exactly one
\* reminder has been delivered by such ticks since that bump.
C2_ExactlyOne == \A g \in Guilds : dueDone[g] => dueSent[g] = 1

C4_RetryUntilOneSuccess ==
    [][\A g \in Guilds :
          /\ fails'[g] > fails[g] =>
                /\ _states' = _states /\ store' = store
                /\ _states'[g].reminder_sent_for_ts = None
          /\ ( /\ tick.pc = "afterRename" /\ Head(tick.todo) = g
               /\ fails[g] > 0 /\ succ[g] = 0
               /\ DueNow(g) /\ HasChan(g, _states[g]) ) => tick'.pc = "send"
          /\ succ'[g] <= 1
          /\ succ'[g] > succ[g] => Notified(g)']_vars

\* a send failed, a later tick sent the reminder, and the guild is marked
C4_Witness == fails[1] = 1 /\ succ[1] = 1 /\ Notified(1) /\ tick.pc = "idle"

\* C6: the cooldown_s from which a tick computes a guild's remaining time is at
\* least the floor of 10 seconds, also when the state was loaded from a file
\* that holds a smaller value.
C6_CooldownFloor ==
    tick.pc \in {"rename", "afterRename", "send"} =>
        _states[Head(tick.todo)].cooldown_s >= MIN_INTERVAL

\* C8: reminder_sent_for_ts is unset, or it is a recorded last_bump_ts of the
\* guild and not greater than the current last_bump_ts.
C8_SentIsRecorded ==
    \A g \in Guilds :
        Has(g) =>
            \/ _states[g].reminder_sent_for_ts = None
            \/ /\ _states[g].reminder_sent_for_ts \in recorded[g]
               /\ _states[g].last_bump_ts # None
               /\ _states[g].reminder_sent_for_ts <= _states[g].last_bump_ts

\* the second bump of a guild got its reminder
C8_Witness ==
    /\ recorded[2] = {0, 7200} /\ Notified(2)
    /\ _states[2].reminder_sent_for_ts = 7200

\* C10: a guild message of the DISBOARD bot with "bump done" in its content or
\* embeds sets the guild's last_bump_ts to the current time and clears its
\* reminder_sent_for_ts, leaving the other guilds alone; any other message
\* changes no guild's state.
C10_RecordBump ==
    [][\A m \in Messages :
          (ev'.op = "on_message" /\ ev'.msg = m) =>
             IF m.guild # None /\ m.author = DISBOARD_BOT_ID /\ (m.content \/ m.embed)
             THEN /\ _states'[m.guild].last_bump_ts = clock
                  /\ _states'[m.guild].reminder_sent_for_ts = None
                  /\ \A g \in Guilds \ {m.guild} : _states'[g] = _states[g]
             ELSE _states' = _states]_vars

\* a bump was recorded for a guild that had been reminded of its first bump
C10_Witness ==
    /\ ev.op = "on_message" /\ ev.msg.guild = 1 /\ ev.msg.content
    /\ recorded[1] = {0, 7200}
    /\ _states[1].last_bump_ts = 7200 /\ _states[1].reminder_sent_for_ts = None

(***************************** presence: claims ****************************)
\* the last step was an iteration of _rotator_loop on a non-empty list
Ticked == pev \in {"tick", "tick_norm"} /\ _rotation # <<>>

\* C5: while the item list is unchanged, consecutive rotation ticks apply the
\* items in cyclic list order: each tick applies the position after the one the
\* previous tick applied (mod n), shows that item, and leaves the cursor one
\* past it (mod n).
C5_CyclicOrder ==
    /\ \A k \in 1..(Len(visit) - 1) : visit[k + 1] = (visit[k] + 1) % Len(_rotation)
    /\ visit # <<>> => _rot_index = (visit[Len(visit)] + 1) % Len(_rotation)
    /\ Ticked => _activity_tup = _rotation[visit[Len(visit)] + 1]

\* C5: three items, five ticks from a fresh start: positions 0, 1, 2, 0, 1
C5_Witness ==
    /\ Len(_rotation) = 3
    /\ visit = <<0, 1, 2, 0, 1>>
    /\ Ticked
    /\ _rot_index = 2

\* C7: the interval in memory is at least 10 in every state, whatever integer
\* the loaded file held and whatever /rotstart was given, and so is the
\* interval of every file that _save_state has written.
C7_IntervalFloor ==
    /\ _rot_interval >= MIN_INTERVAL
    /\ written /\ rot_file.ok => rot_file.interval >= MIN_INTERVAL

\* C7: a file with interval 5 was loaded, /rotstart was given 5, the state was
\* saved and loaded again: 10 in memory and in the file
C7_Witness ==
    /\ p_budget.restart = 0
    /\ written /\ rot_file.ok
    /\ rot_file.interval = MIN_INTERVAL
    /\ _rot_interval = MIN_INTERVAL
    /\ loop = "running"

\* C9: the cursor is in [0, len) whenever the list is non-empty, and 0 when
\* the list is empty.
C9_CursorInRange ==
    IF _rotation = <<>> THEN _rot_index = 0
    ELSE _rot_index \in 0..(Len(_rotation) - 1)

\* C9 as amended: the cursor is never negative; right after a rotation tick on
\* a non-empty list it is in [0, len), and the position that tick read is in
\* [0, len) too.
C9_CursorInRangeAfterTick ==
    /\ _rot_index >= 0
    /\ Ticked => /\ _rot_index \in 0..(Len(_rotation) - 1)
                 /\ visit[Len(visit)] \in 0..(Len(_rotation) - 1)

\* C9: a tick found the cursor past the end of the list, left there by rotdel,
\* and brought it back
C9_Witness ==
    /\ pev = "tick_norm"
    /\ _rotation # <<>>
    /\ _rot_index \in 0..(Len(_rotation) - 1)

(***************************** frame and errors ****************************)
\* C11: on_message makes no call to the chat system: it sends no message.
C11_NoExternalCall == ev.op = "on_message" => ~ev.reply

\* C11 as amended: on_message sends exactly when the message is a bump and the
\* guild's bump_reply_template is set, and it renames no channel.
C11_ReplyIffTemplate ==
    [][ev'.op = "on_message" =>
          /\ ev'.reply =
                (/\ ev'.msg.guild # None /\ ev'.msg.author = DISBOARD_BOT_ID
                 /\ (ev'.msg.content \/ ev'.msg.embed)
                 /\ _states'[ev'.msg.guild].bump_reply_template # NoTemplate)
          /\ chan_name' = chan_name]_vars

\* C11: a bump was recorded in a guild whose template is off, and no reply sent
C11_Witness ==
    /\ ev.op = "on_message" /\ ev.msg.guild = 1 /\ ~ev.reply
    /\ _states[1] # NoState /\ _states[1].last_bump_ts = clock
    /\ _states[1].bump_reply_template = NoTemplate

\* C12: no error of an external call or of building the reminder leaves the
\* tick: the sweep goes on to the remaining guilds and the loop keeps running.
C12_TickCompletesSweep == tick.pc \notin {"raised", "backoff"}

\* C13: whatever the state file holds (text that is not JSON, JSON of another
\* top-level shape, a malformed record), construction of the cog does not fail.
C13_ConstructionNeverFails == tick.pc # "failed"

\* C14: when rotstop returns (its write having succeeded) the persisted rotating
\* flag is false, and when rotstart returns it is true with the new interval.
C14_PersistsRequest ==
    p_budget.save = MaxSaveFails =>
        /\ pev = "rotstop" => ~rot_file.rotating
        /\ pev = "rotstart" => rot_file.rotating /\ rot_file.interval = _rot_interval

(***************************** concurrency, state machine ******************)
\* C15: the tick calls chan.send for a guild only if the cooldown has elapsed
\* since the last_bump_ts the guild holds at that moment, also when a bump was
\* recorded while the tick was suspended in the rename.
C15_SendOnlyIfElapsed ==
    [][(tick.pc = "afterRename" /\ tick'.pc = "send") =>
          LET st == _states[Head(tick.todo)]
          IN  clock - st.last_bump_ts >= st.cooldown_s]_vars

\* the cooldown state of a guild's record at time now
PhaseOf(st, now) ==
    IF st = NoState THEN "idle"
    ELSE IF st.last_bump_ts = None THEN "idle"
    ELSE IF now - st.last_bump_ts < st.cooldown_s THEN "WAITING"
    ELSE IF st.reminder_sent_for_ts = st.last_bump_ts THEN "NOTIFIED"
    ELSE "READY"

\* C16: a guild's cooldown state moves only idle -> WAITING -> READY ->
\* NOTIFIED -> WAITING; it enters WAITING only by a recorded bump, NOTIFIED only
\* from READY, and leaves NOTIFIED or READY backwards only by a recorded bump.
C16_PhaseOrder ==
    [][LET steps == {<<"idle", "idle">>, <<"WAITING", "WAITING">>, <<"READY", "READY">>,
                     <<"NOTIFIED", "NOTIFIED">>, <<"WAITING", "READY">>,
                     <<"READY", "NOTIFIED">>}
       IN  \A g \in Guilds :
              \/ <<PhaseOf(_states[g], clock), PhaseOf(_states'[g], clock')>> \in steps
              \/ /\ ev'.op = "on_message" /\ ev'.msg.guild = g
                 /\ _states'[g] # NoState /\ _states'[g].last_bump_ts = clock'
                 /\ PhaseOf(_states'[g], clock') = "WAITING"]_vars

(***************************** rename label ********************************)
\* C17: for a guild with last_bump_ts set the tick computes remaining =
\* max(0, cooldown_s - (now - last_bump_ts)) and ready iff remaining = 0; the
\* desired label is the ready name when ready, and otherwise the wait name with
\* the least number of minutes m >= 1 such that 60 * m >= remaining.
C17_RemainingAndLabel ==
    (tick.pc \in {"rename", "afterRename"} /\ ~tick.nolast) =>
        LET st == _states[Head(tick.todo)]
            d == st.cooldown_s - (tick.now - st.last_bump_ts)
            remaining == IF d > 0 THEN d ELSE 0
        IN  /\ tick.left = remaining
            /\ tick.ready = (remaining = 0)
            /\ IF remaining = 0
               THEN tick.desired = [k |-> "bump-ready", m |-> 0]
               ELSE /\ tick.desired.k = "bump-wait"
                    /\ tick.desired.m >= 1
                    /\ 60 * tick.desired.m >= remaining
                    /\ 60 * (tick.desired.m - 1) < remaining

\* C17: cooldown 7200, bump at 1000, tick at 1001: 7199 s left, the label says
\* 120 minutes, and the channel is about to be renamed
C17_Witness ==
    /\ tick.pc = "rename" /\ tick.now = 1001 /\ Head(tick.todo) = 1
    /\ _states[1].last_bump_ts = 1000 /\ _states[1].cooldown_s = DEFAULT_COOLDOWN
    /\ ~tick.ready /\ tick.left = 7199
    /\ tick.desired = [k |-> "bump-wait", m |-> 120]

\* C18: the tick calls channel.edit only when the channel's name differs from
\* the desired name, and a channel's name changes only by such a call that
\* succeeds, to the desired name of the call; so after a successful edit no
\* tick edits again while the desired name stays the same.
C18_RenameIdempotent ==
    [][/\ (tick'.edited /\ tick.pc = "loop" /\ tick'.pc = "rename")
             => chan_name[Head(tick.todo)] # tick'.desired
       /\ \A g \in Guilds :
             chan_name'[g] # chan_name[g]
                => /\ tick.pc = "rename" /\ g = Head(tick.todo)
                   /\ chan_name'[g] = tick.desired
       /\ (tick.pc = "loop" /\ tick'.pc = "afterRename"
              /\ _states[Head(tick.todo)].rename_channel_id # None)
             => chan_name[Head(tick.todo)] = tick'.desired]_vars

\* C18: a tick finds the name that an earlier tick's edit has set equal to the
\* desired name and makes no call
C18_Witness ==
    /\ tick.pc = "afterRename" /\ ~tick.edited /\ Head(tick.todo) = 1
    /\ _states[1].rename_channel_id # None
    /\ chan_name[1] = tick.desired /\ chan_name[1] # OtherName

(***************************** persistence ********************************)
\* C19: with every write succeeding, between any two steps of the handlers and
\* of the tick the file parses and holds for every guild exactly the record of
\* its GuildState in memory, and no record for a guild without state.
C19_FileEqualsMemory ==
    /\ store.ok /\ store.top = "object"
    /\ \A g \in Guilds :
          /\ _states[g] = NoState => store.guilds[g] = NoState
          /\ _states[g] # NoState =>
                /\ store.guilds[g] = to_dict(_states[g])
                /\ from_dict(store.guilds[g]) = _states[g]

\* C19: guild 1 was given a channel, recorded a bump and was reminded of it,
\* guild 2 has a state as well, and the file holds all of it
C19_Witness ==
    /\ tick.pc = "idle"
    /\ _states[1] # NoState /\ _states[2] # NoState
    /\ _states[1].bump_channel_id = 101
    /\ _states[1].last_bump_ts = 7200 /\ _states[1].reminder_sent_for_ts = 7200
    /\ store.guilds[1] = to_dict(_states[1])

\* C20: a write that fails raises nothing and leaves the state in memory as the
\* handler made it: the bump is recorded, the reminder is marked, and the tick
\* goes on; and every write that changes the file either truncates it or
\* writes the complete state in memory (as it is at the end of the handler, or
\* as _state made it when it created the guild's record).
C20_FailedSaveHarmless ==
    [][/\ store' # store =>
             \/ store' = Dump(_states')
             \/ store' = Corrupt
             \/ \E g \in Guilds : ~Has(g) /\ store' = Dump(WithState(_states, g))
       /\ budget'.save < budget.save =>
             /\ tick'.pc \notin {"raised", "failed"}
             /\ \A g \in Guilds : _states[g] # NoState => _states'[g] # NoState
             /\ ev'.op = "on_message" =>
                   /\ _states'[ev'.msg.guild].last_bump_ts = clock
                   /\ _states'[ev'.msg.guild].reminder_sent_for_ts = None
             /\ (tick.pc = "send" /\ tick' # tick) =>
                   /\ _states'[Head(tick.todo)].reminder_sent_for_ts
                         = _states[Head(tick.todo)].last_bump_ts
                   /\ tick' = NextGuild]_vars

\* C20: a write has failed, and a later bump in the same process was written:
\* the file holds the whole state again
C20_Witness ==
    /\ budget.save = 0 /\ budget.restart = MaxRestarts
    /\ ev.op = "on_message" /\ ev.msg.guild = 2 /\ clock = 7200
    /\ _states[1] # NoState /\ _states[1].bump_channel_id = 101
    /\ _states[2].last_bump_ts = 7200
    /\ store = Dump(_states)

(***************************** restart and startup *************************)
\* C21: a restart while rotation is running resumes mid-rotation: with the
\* file up to date, the cursor the rebuilt cog starts from points at the item
\* the cursor pointed at before the restart, so that item is applied first.
C21_ResumesAtCursor ==
    [][(/\ p_budget'.restart < p_budget.restart
        /\ loop = "running"
        /\ _rotation # <<>>
        /\ rot_file = Payload(_rotation, _rot_interval, _activity_tup, _autostart, TRUE))
       => /\ _rotation' = _rotation
          /\ _was_rotating_last_time'
          /\ _rot_index' % Len(_rotation) = _rot_index % Len(_rotation)]_vars

(***************************** liveness of the sweep ***********************)
\* SpecRun with the scheduling the code gives: tasks.loop starts _tick again
\* every 30 seconds and the event loop runs a coroutine that is not awaiting
\* anything. channel.edit (line 304) and chan.send (line 392) are awaited with
\* no timeout, so nothing makes a call that is in flight return
SpecSweep ==
    /\ InitRun
    /\ [][NextRun]_vars
    /\ WF_vars(TickStart)
    /\ WF_vars(TickGuild)
    /\ WF_vars(TickAfterRename)
    /\ WF_vars(TickEnd)

\* C22: one unresponsive external call cannot stall the sweep: once the tick
\* is suspended in the rename or the send of a guild, the sweep still comes
\* to its end (and the next tick can start), whether the call returns or not.
C22_SweepNotStalled ==
    (tick.pc \in {"rename", "send"}) ~> (tick.pc = "idle")

(***************************** frame of the tick ***************************)
\* the guild was never bumped: it has no record, or one with no last_bump_ts
Unset(g) == _states[g] = NoState \/ _states[g].last_bump_ts = None

\* C23: a guild whose last_bump_ts is unset is never ready: a step of the tick
\* for it never sends or prepares a reminder and changes neither its record
\* nor the file; the only effect is the rename to the label of the full
\* cooldown.
C23_UnsetNeverReady ==
    [][\A g \in Guilds :
          (Unset(g) /\ tick' # tick /\ tick.todo # <<>> /\ Head(tick.todo) = g) =>
             /\ tick.pc # "send" /\ tick'.pc \notin {"send", "raised"}
             /\ succ' = succ /\ fails' = fails
             /\ _states' = _states /\ store' = store
             /\ IF _states[g] = NoState
                THEN chan_name' = chan_name /\ tick'.pc # "rename"
                ELSE LET full == [k |-> "bump-wait",
                                  m |-> Max(1, CeilDiv(_states[g].cooldown_s, 60))]
                     IN  /\ chan_name'[g] \in {chan_name[g], full}
                         /\ tick'.pc = "rename" => tick'.desired = full]_vars

\* C23 witness: a full cooldown after the start the tick has renamed the
\* channel of a guild that was never bumped, and goes on to the next guild
C23_Witness ==
    /\ tick.pc = "afterRename" /\ tick.edited
    /\ Unset(Head(tick.todo))
    /\ clock >= DEFAULT_COOLDOWN
    /\ chan_name[Head(tick.todo)] = [k |-> "bump-wait", m |-> 120]

\* C24: at the first on_ready of a process, which finds the loop as __init__
\* left it, the rotation loop is started if and only if the rotation list is
\* not empty and autostart is on or the file said rotating when it was loaded.
C24_StartOnBoot ==
    [][/\ (session = "new" /\ session' = "ready" /\ loop = "stopped") =>
             (loop' = "running" <=>
                 (_rotation # <<>> /\ (_autostart \/ _was_rotating_last_time)))
       /\ p_budget'.restart < p_budget.restart =>
             /\ _was_rotating_last_time' = (rot_file.ok /\ rot_file.rotating)
             /\ _autostart' = (rot_file.ok /\ rot_file.autostart)
             /\ loop' = "stopped"]_vars

\* C24 witness: the process was started on a file that said rotating, with
\* autostart off, and its first on_ready has started the loop
C24_Witness ==
    /\ session = "ready" /\ p_budget.restart = MaxRestarts
    /\ _was_rotating_last_time /\ ~_autostart
    /\ loop = "running" /\ visit = <<>> /\ pev = "-"

\* C29: once a rotstop, setactivity or clearactivity has cancelled the running
\* loop, no iteration of the loop applies an item until rotstart is invoked,
\* also when on_ready fires again in the same process.
C29_StoppedStaysStopped ==
    [][session = "halted" =>
          ~(pev' \in {"tick", "tick_norm"} /\ _rotation # <<>>)]_vars

(***************************** interleaving ********************************)
\* C25: no bump loses its reminder to an interleaving: when chan.send returns,
\* the tick sets reminder_sent_for_ts only to a last_bump_ts whose cooldown had
\* elapsed at the tick's now, never to one recorded while it was suspended.
C25_MarksOnlyTheBumpItSentFor ==
    [][\A g \in Guilds :
          (/\ tick.pc = "send" /\ tick' # tick /\ Head(tick.todo) = g
           /\ _states'[g].reminder_sent_for_ts # _states[g].reminder_sent_for_ts)
          => tick.now - _states'[g].reminder_sent_for_ts >= _states'[g].cooldown_s]_vars

(***************************** remind-now **********************************)
\* C26: remind-now sends the reminder whenever the guild has a channel,
\* whatever the cooldown, and leaves last_bump_ts and reminder_sent_for_ts as
\* they were (unset for a record it creates); the tick and its history of
\* automatic reminders are untouched.
C26_RemindNowFrame ==
    [][ev'.op = "remind_now" =>
          LET g == ev'.msg.guild
          IN  /\ _states'[g] # NoState
              /\ ev'.reply = HasChan(g, _states'[g])
              /\ _states'[g].last_bump_ts =
                    IF Has(g) THEN _states[g].last_bump_ts ELSE None
              /\ _states'[g].reminder_sent_for_ts =
                    IF Has(g) THEN _states[g].reminder_sent_for_ts ELSE None
              /\ Has(g) => _states' = _states /\ store' = store
              /\ tick' = tick /\ succ' = succ /\ dueSent' = dueSent]_vars

\* C26 witness: remind-now has sent in the middle of the cooldown of a bump
\* whose automatic reminder is still to come
C26_Witness ==
    /\ ev.op = "remind_now" /\ ev.reply
    /\ LET st == _states[ev.msg.guild]
       IN  /\ st.last_bump_ts # None
           /\ clock - st.last_bump_ts < st.cooldown_s
           /\ st.reminder_sent_for_ts # st.last_bump_ts

(***************************** what the tick writes ************************)
\* C27: a step of the tick changes no field of any guild's record except
\* reminder_sent_for_ts (last_bump_ts, cooldown_s, the channels, the embed and
\* the reply template stay), and gives no record to a guild that has none.
C27_TickWritesOnlySent ==
    [][tick' # tick =>
          \A g \in Guilds :
             IF _states[g] = NoState THEN _states'[g] = NoState
             ELSE /\ _states'[g] # NoState
                  /\ [_states'[g] EXCEPT !.reminder_sent_for_ts =
                                            _states[g].reminder_sent_for_ts] = _states[g]]_vars

\* C27 witness: the tick has just written reminder_sent_for_ts of a guild with
\* a configured channel, next to a guild that has no record
C27_Witness ==
    /\ tick.pc = "loop" /\ tick.todo = <<2>> /\ ev.op = "-"
    /\ _states[1] # NoState /\ _states[1].bump_channel_id # None
    /\ _states[1].last_bump_ts # None
    /\ _states[1].reminder_sent_for_ts = _states[1].last_bump_ts
    /\ succ[1] = 1 /\ _states[2] = NoState

(***************************** no channel **********************************)
\* C28: when the tick comes to a guild whose cooldown has elapsed and whose
\* reminder is not yet recorded, it skips the guild and leaves its record as
\* it is if the guild has neither a configured nor a system channel, and
\* calls chan.send once if it has one; a send that returns delivers one
\* reminder and records it.
C28_SkippedUntilChannel ==
    [][\A g \in Guilds :
          /\ (/\ tick.pc = "afterRename" /\ tick' # tick /\ Head(tick.todo) = g
              /\ DueNow(g) /\ ~Notified(g))
             => IF _states[g].bump_channel_id # None \/ system_channel[g]
                THEN tick'.pc = "send" /\ tick'.todo = tick.todo
                ELSE /\ tick' = NextGuild
                     /\ _states' = _states /\ store' = store
                     /\ succ' = succ /\ fails' = fails
          /\ (tick.pc = "send" /\ Head(tick.todo) = g /\ succ'[g] # succ[g])
             => /\ succ'[g] = succ[g] + 1
                /\ Notified(g)'
                /\ tick' = NextGuild]_vars

\* C28 witness: guild 1 has no system channel; its bump of time 0 was due from
\* 7200 on, a channel was configured since, and the tick of time 14400 has
\* called chan.send for the first reminder of that bump
C28_Witness ==
    /\ tick.pc = "send" /\ Head(tick.todo) = 1 /\ tick.now = 14400
    /\ ~system_channel[1] /\ _states[1].bump_channel_id # None
    /\ _states[1].last_bump_ts = 0 /\ ~Notified(1)
    /\ succ[1] = 0 /\ fails[1] = 0

(***************************** afk *****************************************)
\* the AFK period p is over: no user holds its entry
Over(p) == p <= periods /\ \A u \in Users : afk[u].period # p

\* C30: the "no longer AFK" announcement is sent exactly once per AFK period:
\* never twice, never while the entry is still in self.afk, and once the
\* period is over it has been sent unless the handler that removed the entry
\* is still restoring the nickname; such a handler holds an entry that is
\* already removed.
C30_AnnouncedOncePerPeriod ==
    \A p \in 1..MaxPeriods :
       /\ announced[p] <= 1
       /\ announced[p] = 1 => Over(p)
       /\ Over(p) =>
             \/ announced[p] = 1
             \/ \E i \in InFlight("clear") : afk_tasks[i].period = p
       /\ \A i \in InFlight("clear") :
             afk_tasks[i].period = p => announced[p] = 0 /\ Over(p)

\* C30 witness: user 1's first AFK period was announced once; the user is in
\* a second one, which a message has ended while the nickname is restored
C30_Witness ==
    /\ announced[1] = 1 /\ announced[2] = 0
    /\ afk[1] = NoEntry
    /\ \E i \in InFlight("clear") : afk_tasks[i].user = 1 /\ afk_tasks[i].period = 2

\* C31: when a message's mentions are handled, a notice about a mentioned
\* user is produced exactly when that user is AFK and the last notice for the
\* same (author, target) pair is at least MENTION_COOLDOWN_S seconds old or
\* there was none (the notices of other pairs play no part); and no entry of
\* the cooldown map is ever removed.
C31_NoticePerPair ==
    [][/\ DOMAIN _recent_notices \subseteq DOMAIN _recent_notices'
       /\ aev'.op = "mentions" =>
             \A t \in aev'.mentions :
                 LET pair == <<aev'.author, t>>
                 IN  t \in aev'.notified <=>
                        /\ afk[t] # NoEntry
                        /\ \/ pair \notin DOMAIN notice_ts
                           \/ afk_clock' - notice_ts[pair] >= MENTION_COOLDOWN_S]_vars

\* C31 witness: a mention of an AFK user 29 seconds after the pair's notice
\* produced none, while another pair got its notice at that time
C31_Witness ==
    /\ aev.op = "mentions"
    /\ afk_clock = 1029
    /\ \E t \in aev.mentions \ aev.notified :
          /\ afk[t] # NoEntry
          /\ <<aev.author, t>> \in DOMAIN notice_ts
          /\ notice_ts[<<aev.author, t>>] = 1000
    /\ \E k \in DOMAIN notice_ts : notice_ts[k] = 1029

\* C32: with nickname edits succeeding, a member who is not AFK and has no
\* coroutine of the cog suspended carries no [AFK] tag: the clear has put back
\* the nickname the member had before /afk.
C32_TagNeverSurvives ==
    \A u \in Users :
        (afk[u] = NoEntry /\ \A i \in 1..Len(afk_tasks) : afk_tasks[i].user # u)
            => ~nick[u].tag

(***************************** triggers: claims ****************************)
\* C33: a message that hits a trigger gets the reply exactly when the last
\* reply to that trigger in that channel is at least COOLDOWN_SECONDS old or
\* there was none; replies in other channels or to other triggers play no
\* part, and a message that hits no trigger gets no reply.
C33_ReplyPerChannelAndTrigger ==
    [][triggers'.ev.channel # 0 =>
          LET key == Hit(triggers'.ev.words)
              pair == <<triggers'.ev.channel, key>>
              sent == triggers'.ev.sent
          IN  IF key = "-" THEN sent = "-"
              ELSE /\ sent \in {"-", key}
                   /\ sent = key <=>
                          \/ pair \notin DOMAIN triggers.reply_ts
                          \/ triggers'.clock - triggers.reply_ts[pair]
                                >= COOLDOWN_SECONDS]_vars

\* C33 witness: a hit two seconds after the reply to the same trigger in the
\* same channel got none, while the other channel and the other trigger had
\* their replies within those two seconds
C33_Witness ==
    LET last == triggers.ev
        reply_ts == triggers.reply_ts
    IN  /\ last.channel # 0 /\ last.sent = "-" /\ Hit(last.words) # "-"
        /\ triggers.clock = 1002
        /\ <<last.channel, Hit(last.words)>> \in DOMAIN reply_ts
        /\ reply_ts[<<last.channel, Hit(last.words)>>] = 1000
        /\ \E k \in DOMAIN reply_ts : k[1] # last.channel /\ reply_ts[k] = 1002
        /\ \E k \in DOMAIN reply_ts :
              k[1] = last.channel /\ k[2] # Hit(last.words) /\ reply_ts[k] = 1002

(***************************** sticky message: claims **********************)
\* C34: at most one message posted by the bot exists in the target channel.
C34_AtMostOneSticky == Cardinality(sticky.target_channel) <= 1

\* C35: a message the bot posts for a user message that arrived after a
\* set_sticky had posted its text, with no set_sticky called since, carries
\* that text.
C35_RepostsCustomText ==
    [][\A m \in sticky'.target_channel \ sticky.target_channel :
          (m.by = "on_message" /\ m.want # "-" /\ m.want = sticky.custom)
              => m.content = m.want]_vars

(***************************** tickets: claims *****************************)
\* C36: a press of Open Ticket in a guild with no category or no staff role
\* stored, or whose category is gone, is answered, creates no channel, and
\* leaves the stored values and the file as they were.
C36_UnconfiguredOpenChangesNothing ==
    [][LET Values(st) == IF st = <<>> THEN <<None, None>>
                         ELSE <<st[1].category_id, st[1].staff_role_id>>
       IN  (/\ tickets'.ev.op = "open_ticket"
            /\ \/ Values(tickets.store)[1] = None
               \/ Values(tickets.store)[2] = None
               \/ ~tickets.category_exists)
              => /\ tickets'.ev.replied
                 /\ tickets'.created = tickets.created
                 /\ tickets'.ticket = tickets.ticket
                 /\ Values(tickets'.store) = Values(tickets.store)
                 /\ tickets'.file = tickets.file]_vars

\* C36 witness: Open Ticket was pressed in a configured guild whose category
\* is gone, and no channel was created
C36_Witness ==
    /\ tickets.ev.op = "open_ticket"
    /\ tickets.store # <<>> /\ ~tickets.category_exists
    /\ tickets.created = 0

\* C37: a press of Close, Transcript, Open or Delete by a member who has not
\* the stored staff role, or with no staff role stored, starts no handler
\* work: no permission, panel, transcript or channel changes with it.
C37_OnlyStaff ==
    [][LET sid == IF tickets.store = <<>> THEN None
                  ELSE tickets.store[1].staff_role_id
       IN  (/\ tickets'.ev.op \in {"close", "transcript", "reopen", "delete"}
            /\ (sid = None \/ sid \notin tickets'.ev.roles))
              => /\ tickets'.ev.replied
                 /\ tickets'.opener_send = tickets.opener_send
                 /\ tickets'.panel = tickets.panel
                 /\ tickets'.transcripts = tickets.transcripts
                 /\ tickets'.ticket = tickets.ticket
                 /\ tickets'.tasks = tickets.tasks]_vars

\* C37 witness: a member with another role than the staff role pressed
\* Delete on a closed ticket, and the ticket is still there
C37_Witness ==
    /\ tickets.ev.op = "delete" /\ tickets.ev.roles = {8}
    /\ tickets.store # <<>> /\ tickets.store[1].staff_role_id = 7
    /\ tickets.ticket # None /\ tickets.tasks = <<>>

\* C38: once the handlers of the presses have finished, the opener of the
\* ticket can send exactly when the last staff press was Open or there was
\* none, and the control panel is shown exactly when it was Close.
C38_OpenClosedAlternate ==
    (tickets.ticket # None /\ tickets.tasks = <<>>)
        => /\ tickets.opener_send <=> tickets.last_press \in {"none", "reopen"}
           /\ tickets.panel = "controls" <=> tickets.last_press = "close"

====
